---- MODULE Spec2Model ----
(***************************************************************************)
(* Error Lifecycle Engine of the Odoo automation backend.                  *)
(*                                                                         *)
(* The model covers the Fix Orchestrator (app/services/error_fixer.py):    *)
(* the background fixing loop, the per-attempt procedure, the manual       *)
(* retry/ignore operations, start()/stop() of the service, the retry      *)
(* back-off function of app/core/config.py, and the EventBus of            *)
(* app/services/event_bus.py with its publishers and handlers.             *)
(*                                                                         *)
(* Scheduling: the loop is one asyncio task.  Code between two awaits is   *)
(* atomic; the positions of the task that the model distinguishes are the  *)
(* awaits at which the store is in a different committed state.  Other     *)
(* coroutines (API calls to retry_error / ignore_error / start / stop, the *)
(* error detector) run between those positions.                            *)
(*                                                                         *)
(* Store: every operation opens its own session (get_session), the         *)
(* sessions are created with expire_on_commit=False, so an object loaded   *)
(* in a session keeps the values of that session and commit() writes the   *)
(* attributes the session changed.  The relationship Error.fix_attempts is *)
(* taken to load as the ORM mapping declares it.                           *)
(*                                                                         *)
(* Time: timestamps are kept as ages.  A FixAttempt row stores how many    *)
(* seconds ago completed_at was set (utcnow() - completed_at), saturated   *)
(* at max_delay_seconds, above which get_delay cannot tell ages apart.     *)
(***************************************************************************)
EXTENDS Integers, Sequences, FiniteSets, TLC

VARIABLES
    errors,        \* table "errors": row id -> Error row, ids in detected_at order
    fix_attempts,  \* table "fix_attempts": per error_id, its rows in insertion order
    retry_config,  \* ErrorFixerService.retry_config (settings.retry)
    running,       \* ErrorFixerService._running
    pc,            \* position of the task ErrorFixerService._task
    cur,           \* the Error the task is working on (local "error")
    cur_attempt,   \* the FixAttempt row the task created (local "fix_attempt")
    current_fix,   \* ErrorFixerService._current_fix
    last_event,    \* the event most recently emitted by the fixer
    escalated,     \* number of FIX_ESCALATED events published
    ret,           \* result of the latest retry_error / ignore_error call
    calls,         \* number of stop / retry_error / ignore_error calls made
    dq,            \* a get_delay query: configuration, attempt, result
    bus,           \* the EventBus with the coroutines that publish on it
    det,           \* ErrorDetectorService with the log file it follows
    odoo           \* the monitored service and the coroutines that restart it

vars == <<errors, fix_attempts, retry_config, running, pc, cur, cur_attempt,
          current_fix, last_event, escalated, ret, calls, dq, bus, det, odoo>>

(***************************************************************************)
(* Bounds of the model.                                                    *)
(***************************************************************************)
NumErrors == 1
MaxEscalations == 2
MaxCalls == 3
TickSeconds == 60
MaxAttemptArg == 6
MaxPublishes == 150
MaxEvents == 3
MaxHandlers == 2
MaxDeliveries == 2
MaxLogLines == 4
MaxWritten == 3
MaxRotations == 1
MaxDetectorCalls == 3

(***************************************************************************)
(* Values.                                                                 *)
(***************************************************************************)
NONE == 0

DETECTED == "detected"
QUEUED   == "queued"
FIXING   == "fixing"
RESOLVED == "resolved"
FAILED   == "failed"
IGNORED  == "ignored"
ErrorStatus == {DETECTED, QUEUED, FIXING, RESOLVED, FAILED, IGNORED}

IN_PROGRESS     == "in_progress"
ATTEMPT_SUCCESS == "success"
ATTEMPT_FAILED  == "failed"
ATTEMPT_TIMEOUT == "timeout"
FixAttemptStatus == {IN_PROGRESS, ATTEMPT_SUCCESS, ATTEMPT_FAILED, ATTEMPT_TIMEOUT}

Min(a, b) == IF a <= b THEN a ELSE b

RECURSIVE Pow(_, _)
Pow(b, e) == IF e = 0 THEN 1 ELSE b * Pow(b, e - 1)

(***************************************************************************)
(* RetryConfig.  multiplier is a float; it is kept as the fraction         *)
(* multiplier_num / multiplier_den.  The configurations used have a        *)
(* denominator of 1 or 2, for which the float product is exact.            *)
(***************************************************************************)
RetryConfig(ma, base, num, den, maxd) ==
    [max_attempts |-> ma, base_delay_seconds |-> base,
     multiplier_num |-> num, multiplier_den |-> den,
     max_delay_seconds |-> maxd]

DefaultRetryConfig == RetryConfig(5, 60, 2, 1, 960)

SmallRetryConfig == RetryConfig(3, 60, 2, 1, 60)

\* mutant: the exponent is the attempt number, not attempt - 1
get_delay_exponent_off(cfg, attempt) ==
    Min((cfg.base_delay_seconds * Pow(cfg.multiplier_num, attempt))
            \div Pow(cfg.multiplier_den, attempt),
        cfg.max_delay_seconds)

\* delay = base * multiplier ** (attempt - 1); min(int(delay), max_delay)
get_delay(cfg, attempt) ==
    Min((cfg.base_delay_seconds * Pow(cfg.multiplier_num, attempt - 1))
            \div Pow(cfg.multiplier_den, attempt - 1),
        cfg.max_delay_seconds)

(***************************************************************************)
(* The store.                                                              *)
(***************************************************************************)
ErrorIds == DOMAIN errors

NewError(fixable) ==
    [status |-> DETECTED, auto_fixable |-> fixable,
     resolved_at |-> FALSE, ignored_at |-> FALSE, ignored_by |-> ""]

\* mutant: attempts numbered from the prior count, without the + 1
NewFixAttempt_zero_based(n) ==
    [attempt_number |-> n - 1, status |-> IN_PROGRESS, completed |-> FALSE, ago |-> 0]

NewFixAttempt(n) ==
    [attempt_number |-> n, status |-> IN_PROGRESS, completed |-> FALSE, ago |-> 0]

\* relationship Error.fix_attempts: the rows of e, order_by attempt_number
RECURSIVE OrderByNumber(_, _)
OrderByNumber(rows, S) ==
    IF S = {} THEN <<>>
    ELSE LET m == CHOOSE i \in S : \A j \in S :
                     \/ rows[i].attempt_number < rows[j].attempt_number
                     \/ /\ rows[i].attempt_number = rows[j].attempt_number
                        /\ i <= j
         IN <<rows[m]>> \o OrderByNumber(rows, S \ {m})

error_fix_attempts(e) == OrderByNumber(fix_attempts[e], DOMAIN fix_attempts[e])

\* Error.attempt_count / len(error.fix_attempts)
attempt_count(e) == Len(error_fix_attempts(e))

\* error.fix_attempts[-1]
last_attempt(e) == error_fix_attempts(e)[attempt_count(e)]

SetStatus(e, s) == [errors EXCEPT ![e].status = s]

Event(type, reason) == [type |-> type, reason |-> reason]

NoEvent == Event("none", "")

NoQuery == [cfg |-> DefaultRetryConfig, attempt |-> 1, result |-> NONE]

\* a detector that was never started, following a log file that is empty
NoDetector ==
    [exists |-> TRUE, file |-> <<>>, generation |-> 1, written |-> 0,
     running |-> FALSE, last_position |-> 0, tasks |-> <<>>,
     ingested |-> {}, reingested |-> {}, scan |-> [pc |-> "none"], announced |-> {},
     status_events |-> 0, calls |-> 0, stopped |-> FALSE]

\* the monitored service up, no verification restart made, the updater idle
NoRestart ==
    [service |-> "up", verify |-> [attempt |-> <<0, 0>>, at |-> "none"],
     updater |-> "idle", updating |-> FALSE, rejected |-> FALSE, updates |-> 0]

\* an EventBus nobody subscribed to or published on, and no publisher
NoBus ==
    [history |-> <<>>, history_size |-> 0, global_subscribers |-> <<>>,
     subscribers |-> <<>>, published |-> 0, max_published |-> 0,
     publishers |-> <<>>, calls |-> <<>>]

(***************************************************************************)
(* Error detector: a new Error row, status DETECTED (error_detector.py).   *)
(***************************************************************************)
detect ==
    /\ Len(errors) < NumErrors
    /\ \E fixable \in BOOLEAN :
           errors' = Append(errors, NewError(fixable))
    /\ fix_attempts' = Append(fix_attempts, <<>>)
    /\ UNCHANGED <<escalated, retry_config, running, pc, cur, cur_attempt,
                   current_fix, last_event, ret, calls, dq, bus, det, odoo>>

(***************************************************************************)
(* ErrorFixerService.start: a no-op when already running, else the flag    *)
(* is set and the task created.                                            *)
(***************************************************************************)
start ==
    /\ ~running
    /\ running' = TRUE
    /\ pc' = "loop"
    /\ last_event' = Event("status_change", "running")
    /\ UNCHANGED <<errors, fix_attempts, retry_config, cur, cur_attempt,
                   current_fix, escalated, ret, calls, dq, bus, det, odoo>>

(***************************************************************************)
(* ErrorFixerService.stop: clears the flag, cancels the task and awaits    *)
(* it.  CancelledError is raised at the await the task is suspended in;    *)
(* it is not an Exception, so no except clause of _process_error or of the *)
(* loop handles it.  Inside the try block only the finally clause runs;    *)
(* between the commit of the new attempt and the try block nothing runs.   *)
(***************************************************************************)
stop ==
    /\ calls < MaxCalls
    /\ calls' = calls + 1
    /\ running' = FALSE
    /\ pc' = "none"
    /\ cur' = NONE
    /\ cur_attempt' = NONE
    /\ IF pc \in {"invoking", "verifying"}
       THEN /\ fix_attempts' = [fix_attempts EXCEPT ![cur][cur_attempt].completed = TRUE,
                                                    ![cur][cur_attempt].ago = 0]
            /\ current_fix' = NONE
       ELSE UNCHANGED <<fix_attempts, current_fix>>
    /\ last_event' = Event("status_change", "stopped")
    /\ UNCHANGED <<errors, retry_config, escalated, ret, dq, bus, det, odoo>>

(***************************************************************************)
(* _fixing_loop, one iteration start: _get_next_error.                     *)
(***************************************************************************)
\* mutant: the auto_fixable flag is not part of the query
Eligible_any_flag(s) == {e \in ErrorIds : errors[e].status = s}

Eligible(s) == {e \in ErrorIds : errors[e].status = s /\ errors[e].auto_fixable}

\* order_by(Error.detected_at).limit(1): ids are in detected_at order
Oldest(S) == CHOOSE e \in S : \A f \in S : e <= f

get_next_error ==
    /\ pc = "loop"
    /\ running
    /\ IF Eligible(QUEUED) # {}
       THEN /\ cur' = Oldest(Eligible(QUEUED))
            /\ pc' = "picked"
            /\ UNCHANGED errors
       ELSE IF Eligible(DETECTED) # {}
       THEN /\ cur' = Oldest(Eligible(DETECTED))
            /\ errors' = SetStatus(Oldest(Eligible(DETECTED)), QUEUED)
            /\ pc' = "picked"
       ELSE /\ pc' = "sleep"
            /\ UNCHANGED <<errors, cur>>
    /\ UNCHANGED <<fix_attempts, retry_config, running, cur_attempt,
                   current_fix, last_event, escalated, ret, calls, dq, bus, det, odoo>>

\* asyncio.sleep(10) of the idle branch is over
wake ==
    /\ pc = "sleep"
    /\ pc' = "loop"
    /\ UNCHANGED <<errors, fix_attempts, retry_config, running, cur, cur_attempt,
                   current_fix, last_event, escalated, ret, calls, dq, bus, det, odoo>>

\* mutant: the exception leaves _fixing_loop and the task ends
loop_error_terminates ==
    /\ pc \in {"loop", "picked"}
    /\ pc' = "none"
    /\ cur' = NONE
    /\ UNCHANGED <<errors, fix_attempts, retry_config, running, cur_attempt,
                   current_fix, last_event, escalated, ret, calls, dq, bus, det, odoo>>

\* an Exception out of _get_next_error, or out of _process_error before its
\* try (the store fails): "except Exception" of _fixing_loop, which logs it
\* and enters "await asyncio.sleep(30)"
loop_error ==
    /\ pc \in {"loop", "picked"}
    /\ pc' = "backoff"
    /\ cur' = NONE
    /\ UNCHANGED <<errors, fix_attempts, retry_config, running, cur_attempt,
                   current_fix, last_event, escalated, ret, calls, dq, bus, det, odoo>>

\* "await asyncio.sleep(30)" of the except branch returns
backoff_done ==
    /\ pc = "backoff"
    /\ pc' = "loop"
    /\ UNCHANGED <<errors, fix_attempts, retry_config, running, cur, cur_attempt,
                   current_fix, last_event, escalated, ret, calls, dq, bus, det, odoo>>

(***************************************************************************)
(* _process_error up to the commit that records the new attempt.           *)
(***************************************************************************)
\* mutant: no test of the attempt count
MustEscalate_never(e) == FALSE

\* mutant: escalation only once the count exceeds max_attempts
MustEscalate_strict(e) == attempt_count(e) > retry_config.max_attempts

\* attempt_count >= max_attempts
MustEscalate(e) == attempt_count(e) >= retry_config.max_attempts

\* the back-off test that returns early
NotReady(e) ==
    /\ attempt_count(e) > 0
    /\ last_attempt(e).completed
    /\ last_attempt(e).ago < get_delay(retry_config, attempt_count(e))

process_error ==
    /\ pc = "picked"
    /\ IF MustEscalate(cur)
       THEN /\ escalated < MaxEscalations
            /\ errors' = SetStatus(cur, FAILED)
            /\ escalated' = escalated + 1
            /\ last_event' = Event("fix_escalated", "")
            /\ pc' = "loop"
            /\ cur' = NONE
            /\ UNCHANGED <<fix_attempts, cur_attempt, current_fix>>
       ELSE IF NotReady(cur)
       THEN /\ pc' = "loop"
            /\ cur' = NONE
            /\ UNCHANGED <<errors, fix_attempts, cur_attempt, current_fix,
                           last_event, escalated>>
       ELSE /\ errors' = SetStatus(cur, FIXING)
            /\ current_fix' = cur
            /\ fix_attempts' = [fix_attempts EXCEPT ![cur] =
                                    Append(@, NewFixAttempt(attempt_count(cur) + 1))]
            /\ cur_attempt' = Len(fix_attempts[cur]) + 1
            /\ pc' = "started"
            /\ UNCHANGED <<cur, last_event, escalated>>
    /\ UNCHANGED <<retry_config, running, ret, calls, dq, bus, det, odoo>>

\* emit FIX_STARTED, then the try block is entered
enter_try ==
    /\ pc = "started"
    /\ last_event' = Event("fix_started", "")
    /\ pc' = "invoking"
    /\ UNCHANGED <<errors, fix_attempts, retry_config, running, cur, cur_attempt,
                   current_fix, escalated, ret, calls, dq, bus, det, odoo>>

(***************************************************************************)
(* The log file of the monitored service, as _verify_fix reads it with     *)
(* tail.  A log is a sequence of runs of equal lines; a run records how    *)
(* many lines it has, whether its lines contain the error type, the        *)
(* (truncated) error message, the word ERROR or CRITICAL, and whether the  *)
(* lines were written after the restart of the service.                    *)
(***************************************************************************)
TAIL_CHECK  == 200
TAIL_RECENT == 500
MAX_RECENT  == 10

Run(n, type, msg, err, post) ==
    [n |-> n, type |-> type, msg |-> msg, err |-> err, post |-> post]

\* an error block: the "ERROR ..." header line, then the line "Type: message"
ErrorBlock(post) == <<Run(1, FALSE, FALSE, TRUE, post), Run(1, TRUE, TRUE, FALSE, post)>>

LogLines(pre, info, recur, newerr) ==
    (IF pre THEN ErrorBlock(FALSE) ELSE <<>>)
    \o (IF info > 0 THEN <<Run(info, FALSE, FALSE, FALSE, TRUE)>> ELSE <<>>)
    \o (IF recur THEN ErrorBlock(TRUE) ELSE <<>>)
    \o (IF newerr THEN <<Run(1, FALSE, FALSE, TRUE, TRUE)>> ELSE <<>>)

\* tail -n k
RECURSIVE tail_n(_, _)
tail_n(lines, k) ==
    IF k = 0 \/ lines = <<>> THEN <<>>
    ELSE LET r == lines[Len(lines)]
         IN IF r.n >= k THEN <<[r EXCEPT !.n = k]>>
            ELSE tail_n(SubSeq(lines, 1, Len(lines) - 1), k - r.n) \o <<r>>

RECURSIVE CountErr(_)
CountErr(lines) ==
    IF lines = <<>> THEN 0
    ELSE (IF lines[1].err THEN lines[1].n ELSE 0) + CountErr(SubSeq(lines, 2, Len(lines)))

\* _check_for_error_in_logs: error_type in content and error_message in content
check_for_error_in_logs(log) ==
    /\ log.exists
    /\ \E i \in DOMAIN tail_n(log.lines, TAIL_CHECK) : tail_n(log.lines, TAIL_CHECK)[i].type
    /\ \E i \in DOMAIN tail_n(log.lines, TAIL_CHECK) : tail_n(log.lines, TAIL_CHECK)[i].msg

\* _get_recent_errors: the ERROR/CRITICAL lines of the tail, the last 10 of them
get_recent_errors(log) ==
    IF ~log.exists THEN 0
    ELSE Min(CountErr(tail_n(log.lines, TAIL_RECENT)), MAX_RECENT)

\* _verify_fix when the restart does not raise: the VerificationResult
verify_fix(v) ==
    IF ~v.syntax_ok
    THEN [fix_successful |-> FALSE, syntax_check_passed |-> FALSE,
          original_error_resolved |-> FALSE, new_errors_introduced |-> 1]
    ELSE [fix_successful |-> /\ ~check_for_error_in_logs(v.log)
                             /\ get_recent_errors(v.log) = 0,
          syntax_check_passed |-> TRUE,
          original_error_resolved |-> ~check_for_error_in_logs(v.log),
          new_errors_introduced |-> get_recent_errors(v.log)]

VerifyInput(syntax_ok, restart_ok, exists, pre, info, recur, newerr) ==
    [syntax_ok |-> syntax_ok, restart_ok |-> restart_ok,
     log |-> [exists |-> exists, lines |-> LogLines(pre, info, recur, newerr)]]

InfoCounts == {0, TAIL_CHECK + 50, TAIL_RECENT + 100}

AllVerifyInputs ==
    {VerifyInput(s, r, x, p, n, c, e) :
        s \in BOOLEAN, r \in BOOLEAN, x \in BOOLEAN, p \in BOOLEAN,
        n \in InfoCounts, c \in BOOLEAN, e \in BOOLEAN}

\* a clean log, a log where the error came back, a syntax error, a failed restart
FewVerifyInputs ==
    {VerifyInput(TRUE, TRUE, TRUE, TRUE, TAIL_RECENT + 100, FALSE, FALSE),
     VerifyInput(TRUE, TRUE, TRUE, TRUE, TAIL_RECENT + 100, TRUE, FALSE),
     VerifyInput(FALSE, TRUE, TRUE, TRUE, 0, FALSE, FALSE),
     VerifyInput(TRUE, FALSE, TRUE, TRUE, 0, FALSE, FALSE)}

(***************************************************************************)
(* _process_error, the try block and its except/finally clauses.           *)
(***************************************************************************)
\* mutant: the finally clause does not clear _current_fix
Finish_keeps_marker(astatus, estatus, ev) ==
    /\ fix_attempts' = [fix_attempts EXCEPT ![cur][cur_attempt].status = astatus,
                                            ![cur][cur_attempt].completed = TRUE,
                                            ![cur][cur_attempt].ago = 0]
    /\ errors' = [errors EXCEPT ![cur].status = estatus,
                                ![cur].resolved_at =
                                    IF estatus = RESOLVED THEN TRUE ELSE @]
    /\ last_event' = ev
    /\ UNCHANGED current_fix
    /\ pc' = "loop"
    /\ cur' = NONE
    /\ cur_attempt' = NONE

\* mutant: a failed attempt that reached max_attempts sets FAILED at once
Finish_escalates_at_cap(astatus, estatus, ev) ==
    /\ fix_attempts' = [fix_attempts EXCEPT ![cur][cur_attempt].status = astatus,
                                            ![cur][cur_attempt].completed = TRUE,
                                            ![cur][cur_attempt].ago = 0]
    /\ errors' = [errors EXCEPT ![cur].status =
                                    IF /\ estatus = QUEUED
                                       /\ attempt_count(cur) >= retry_config.max_attempts
                                    THEN FAILED ELSE estatus,
                                ![cur].resolved_at =
                                    IF estatus = RESOLVED THEN TRUE ELSE @]
    /\ last_event' = ev
    /\ current_fix' = NONE
    /\ pc' = "loop"
    /\ cur' = NONE
    /\ cur_attempt' = NONE

\* the assignments of one branch, then finally: completed_at, _current_fix, commit
Finish(astatus, estatus, ev) ==
    /\ fix_attempts' = [fix_attempts EXCEPT ![cur][cur_attempt].status = astatus,
                                            ![cur][cur_attempt].completed = TRUE,
                                            ![cur][cur_attempt].ago = 0]
    /\ errors' = [errors EXCEPT ![cur].status = estatus,
                                ![cur].resolved_at =
                                    IF estatus = RESOLVED THEN TRUE ELSE @]
    /\ last_event' = ev
    /\ current_fix' = NONE
    /\ pc' = "loop"
    /\ cur' = NONE
    /\ cur_attempt' = NONE

\* how _invoke_claude_code ends.  A run longer than claude.timeout_seconds
\* meets two timers of that same length: asyncio.wait_for in the event loop
\* ("timeout": asyncio.TimeoutError, re-raised) and subprocess.run in the
\* worker thread ("subprocess_timeout": subprocess.TimeoutExpired, which
\* wait_for hands over when the worker is done first and which the
\* except Exception clause of _invoke_claude_code turns into a response
\* with success = False).  Which of the two is seen depends on scheduling.
InvokeOutcomes ==
    {"success", "failure", "timeout", "subprocess_timeout", "exception"}

\* the outcomes of a run that exceeded claude.timeout_seconds
TimeoutOutcomes == {"timeout", "subprocess_timeout"}

\* await self._invoke_claude_code(error) returns or raises
invoke_done(outcome) ==
    /\ pc = "invoking"
    /\ CASE outcome = "success" ->
              /\ pc' = "verifying"
              /\ UNCHANGED <<errors, fix_attempts, cur, cur_attempt,
                             current_fix, last_event>>
         [] outcome = "failure" ->
              Finish(ATTEMPT_FAILED, QUEUED,
                     Event("fix_failed", "claude_invocation_failed"))
         [] outcome = "timeout" ->
              Finish(ATTEMPT_TIMEOUT, QUEUED, Event("fix_failed", "timeout"))
         [] outcome = "subprocess_timeout" ->
              Finish(ATTEMPT_FAILED, QUEUED,
                     Event("fix_failed", "command_timed_out_after_seconds"))
         [] outcome = "exception" ->
              Finish(ATTEMPT_FAILED, QUEUED, last_event)
    /\ UNCHANGED <<retry_config, running, escalated, ret, calls, dq, bus, det, odoo>>

\* await self._verify_fix(error, claude_response) returns or raises
verify_done(v) ==
    /\ pc = "verifying"
    /\ IF v.syntax_ok /\ ~v.restart_ok
       THEN Finish(ATTEMPT_FAILED, QUEUED, last_event)
       ELSE IF verify_fix(v).fix_successful
       THEN Finish(ATTEMPT_SUCCESS, RESOLVED, Event("fix_completed", ""))
       ELSE Finish(ATTEMPT_FAILED, QUEUED,
                   Event("fix_failed", "verification_failed"))
    /\ UNCHANGED <<retry_config, running, escalated, ret, calls, dq, bus, det, odoo>>

(***************************************************************************)
(* Manual operations.                                                      *)
(***************************************************************************)
\* mutant: no test of the current status
retry_error_any_status(e) ==
    /\ calls < MaxCalls
    /\ calls' = calls + 1
    /\ IF e \in ErrorIds
       THEN /\ errors' = SetStatus(e, QUEUED)
            /\ ret' = TRUE
       ELSE /\ ret' = FALSE
            /\ UNCHANGED errors
    /\ UNCHANGED <<fix_attempts, retry_config, running, pc, cur, cur_attempt,
                   current_fix, last_event, escalated, dq, bus, det, odoo>>

retry_error(e) ==
    /\ calls < MaxCalls
    /\ calls' = calls + 1
    /\ IF e \in ErrorIds /\ errors[e].status \in {FAILED, IGNORED}
       THEN /\ errors' = SetStatus(e, QUEUED)
            /\ ret' = TRUE
       ELSE /\ ret' = FALSE
            /\ UNCHANGED errors
    /\ UNCHANGED <<fix_attempts, retry_config, running, pc, cur, cur_attempt,
                   current_fix, last_event, escalated, dq, bus, det, odoo>>

ignore_error(e, by) ==
    /\ calls < MaxCalls
    /\ calls' = calls + 1
    /\ IF e \in ErrorIds
       THEN /\ errors' = [errors EXCEPT ![e].status = IGNORED,
                                        ![e].ignored_at = TRUE,
                                        ![e].ignored_by = by]
            /\ last_event' = Event("error_ignored", by)
            /\ ret' = TRUE
       ELSE /\ ret' = FALSE
            /\ UNCHANGED <<errors, last_event>>
    /\ UNCHANGED <<fix_attempts, retry_config, running, pc, cur, cur_attempt,
                   current_fix, escalated, dq, bus, det, odoo>>

(***************************************************************************)
(* Time passes: every recorded completion is TickSeconds older.            *)
(***************************************************************************)
tick ==
    /\ fix_attempts' =
           [e \in DOMAIN fix_attempts |->
               [i \in DOMAIN fix_attempts[e] |->
                   IF fix_attempts[e][i].completed
                   THEN [fix_attempts[e][i] EXCEPT
                            !.ago = Min(@ + TickSeconds, retry_config.max_delay_seconds)]
                   ELSE fix_attempts[e][i]]]
    /\ UNCHANGED <<errors, retry_config, running, pc, cur, cur_attempt,
                   current_fix, last_event, escalated, ret, calls, dq, bus, det, odoo>>

(***************************************************************************)
(* EventBus (app/services/event_bus.py).  An event is named by its publish *)
(* sequence number.  publish() appends it to the history and snapshots the *)
(* handlers under the lock (no await inside, so the lock is never          *)
(* contended), then awaits the handlers one after the other outside the    *)
(* lock.  A handler that awaits suspends the publishing coroutine, and     *)
(* other coroutines, other publishers included, run meanwhile.             *)
(***************************************************************************)
fixer_vars == <<errors, fix_attempts, retry_config, running, pc, cur,
                cur_attempt, current_fix, last_event, escalated, ret, calls, dq>>

\* the coroutines that publish, with the type of the events each emits
Publishers == {"error_detector", "error_fixer"}

EventTypeOf(p) == IF p = "error_detector" THEN "error_detected" ELSE "fix_started"

EventTypes == {EventTypeOf(p) : p \in Publishers}

\* handlers: a handler may await (as the WebSocket broadcast does) and may
\* raise an Exception
Handlers == {"count", "handle_event", "failing", "slow_failing"}

Suspends(h) == h \in {"handle_event", "slow_failing"}

Raises(h) == h \in {"failing", "slow_failing"}

\* mutant: the newest event is dropped when the history is full
Record_drops_newest(history, event, size) ==
    IF Len(history) + 1 > size
    THEN history
    ELSE Append(history, event)

\* self._history.append(event); if len > history_size: pop(0)
Record(history, event, size) ==
    IF Len(history) + 1 > size
    THEN Tail(Append(history, event))
    ELSE Append(history, event)

\* a Python slice s[-k:] for k >= 0
LastN(s, k) ==
    IF k = 0 \/ k >= Len(s) THEN s ELSE SubSeq(s, Len(s) - k + 1, Len(s))

\* the event_type argument left at its default, None
NoType == ""

\* if event_type: the filtered history, else the whole history, sliced [-limit:]
get_history(event_type, limit) ==
    IF event_type # NoType
    THEN LastN(SelectSeq(bus.history,
                         LAMBDA e : bus.calls[e].type = event_type), limit)
    ELSE LastN(bus.history, limit)

\* mutant: the Exception leaves the loop
AfterRaise_propagates(idx, n) == n + 1

\* the for loop over the handlers after the handler at position idx raised:
\* the Exception is caught and logged, the loop goes on
AfterRaise(idx, n) == idx + 1

\* one publish() call: the snapshot of handlers, the position of the loop,
\* how often each position was called, which calls raised, and where the
\* coroutine is ("in_handler": suspended in handlers[idx]; "returned")
NewCall(type, handlers) ==
    [type |-> type, handlers |-> handlers, idx |-> 1,
     invoked |-> [i \in DOMAIN handlers |-> 0], raised |-> {},
     pc |-> "in_handler"]

\* run the loop from position c.idx up to the first handler that suspends
RECURSIVE RunHandlers(_)
RunHandlers(c) ==
    IF c.idx > Len(c.handlers)
    THEN [c EXCEPT !.pc = "returned"]
    ELSE LET h == c.handlers[c.idx]
             called == [c EXCEPT !.invoked[c.idx] = @ + 1]
         IN  IF Suspends(h)
             THEN [called EXCEPT !.pc = "in_handler"]
             ELSE IF Raises(h)
             THEN RunHandlers([called EXCEPT
                                  !.raised = @ \cup {c.idx},
                                  !.idx = AfterRaise(c.idx, Len(c.handlers))])
             ELSE RunHandlers([called EXCEPT !.idx = c.idx + 1])

Idle(p) == bus.publishers[p] = NONE

Registrations ==
    Len(bus.global_subscribers)
    + Len(bus.subscribers["error_detected"]) + Len(bus.subscribers["fix_started"])

subscribe_all(h) ==
    /\ Registrations < MaxHandlers
    /\ bus' = [bus EXCEPT !.global_subscribers = Append(@, h)]
    /\ UNCHANGED <<fixer_vars, det, odoo>>

subscribe(t, h) ==
    /\ Registrations < MaxHandlers
    /\ bus' = [bus EXCEPT !.subscribers[t] = Append(@, h)]
    /\ UNCHANGED <<fixer_vars, det, odoo>>

\* mutant: list.pop() in place of list.remove(handler)
RemoveFirst_pops_last(s, h) ==
    IF \E i \in DOMAIN s : s[i] = h THEN SubSeq(s, 1, Len(s) - 1) ELSE s

\* list.remove(handler): the first occurrence goes; ValueError (no
\* occurrence) is caught and passed
RemoveFirst(s, h) ==
    IF \E i \in DOMAIN s : s[i] = h
    THEN LET i == CHOOSE i \in DOMAIN s :
                      s[i] = h /\ \A j \in 1..(i - 1) : s[j] # h
         IN  SubSeq(s, 1, i - 1) \o SubSeq(s, i + 1, Len(s))
    ELSE s

unsubscribe(t, h) ==
    /\ bus' = [bus EXCEPT !.subscribers[t] = RemoveFirst(@, h)]
    /\ UNCHANGED <<fixer_vars, det, odoo>>

\* publish(event) up to the first await of a handler that suspends
publish(p) ==
    /\ Idle(p)
    /\ bus.published < bus.max_published
    /\ LET event == bus.published + 1
           handlers == bus.global_subscribers \o bus.subscribers[EventTypeOf(p)]
           call == RunHandlers(NewCall(EventTypeOf(p), handlers))
       IN  bus' = [bus EXCEPT
                      !.history = Record(@, event, bus.history_size),
                      !.published = event,
                      !.calls = Append(@, call),
                      !.publishers[p] =
                          IF call.pc = "returned" THEN NONE ELSE event]
    /\ UNCHANGED <<fixer_vars, det, odoo>>

\* the handler the publisher is suspended in completes (returns or raises),
\* and the loop runs on to the next suspension or to the end
handler_done(p) ==
    /\ ~Idle(p)
    /\ LET event == bus.publishers[p]
           c == bus.calls[event]
           h == c.handlers[c.idx]
           after == IF Raises(h)
                    THEN [c EXCEPT !.raised = @ \cup {c.idx},
                                   !.idx = AfterRaise(c.idx, Len(c.handlers))]
                    ELSE [c EXCEPT !.idx = c.idx + 1]
           call == RunHandlers(after)
       IN  bus' = [bus EXCEPT
                      !.calls[event] = call,
                      !.publishers[p] =
                          IF call.pc = "returned" THEN NONE ELSE event]
    /\ UNCHANGED <<fixer_vars, det, odoo>>

NoFixer ==
    /\ errors = <<>>
    /\ fix_attempts = <<>>
    /\ retry_config = DefaultRetryConfig
    /\ running = FALSE
    /\ pc = "none"
    /\ cur = NONE
    /\ cur_attempt = NONE
    /\ current_fix = NONE
    /\ last_event = NoEvent
    /\ escalated = 0
    /\ ret = FALSE
    /\ calls = 0
    /\ dq = NoQuery

NewBus(size, limit) ==
    [history |-> <<>>, history_size |-> size, global_subscribers |-> <<>>,
     subscribers |-> [t \in EventTypes |-> <<>>],
     published |-> 0, max_published |-> limit,
     publishers |-> [p \in Publishers |-> NONE], calls |-> <<>>]

\* the detector and the fixer publish while handlers come and go
InitBus ==
    /\ NoFixer
    /\ bus = NewBus(2, MaxEvents)
    /\ det = NoDetector
    /\ odoo = NoRestart

NextBus ==
    \/ \E h \in Handlers : subscribe_all(h)
    \/ \E t \in EventTypes, h \in Handlers : subscribe(t, h)
    \/ \E p \in Publishers : publish(p)
    \/ \E p \in Publishers : handler_done(p)

SpecBus == InitBus /\ [][NextBus]_vars

\* the same with handlers unsubscribing
DeliveryHandlers == {"count", "handle_event", "failing"}

NextDelivery ==
    \/ \E h \in DeliveryHandlers : subscribe_all(h)
    \/ \E t \in EventTypes, h \in DeliveryHandlers : subscribe(t, h)
    \/ \E t \in EventTypes, h \in DeliveryHandlers : unsubscribe(t, h)
    \/ \E p \in Publishers : publish(p)
    \/ \E p \in Publishers : handler_done(p)

InitDelivery ==
    /\ NoFixer
    /\ bus = NewBus(2, MaxDeliveries)
    /\ det = NoDetector
    /\ odoo = NoRestart

SpecDelivery == InitDelivery /\ [][NextDelivery]_vars

\* a long run of publishes on buses of several history sizes
HistorySizes == {0, 1, 2, 3, 100}

InitHistory ==
    /\ NoFixer
    /\ \E size \in HistorySizes : bus = NewBus(size, MaxPublishes)
    /\ det = NoDetector
    /\ odoo = NoRestart

NextHistory == publish("error_detector")

SpecHistory == InitHistory /\ [][NextHistory]_vars

(***************************************************************************)
(* Error detector, parsing (app/services/error_detector.py).  A log line   *)
(* is described by what the detector's tests see in it: whether            *)
(* ERROR_START_PATTERN matches it, whether it contains the word ERROR or   *)
(* CRITICAL, whether it is blank, starts with a blank or contains          *)
(* "Traceback", which entry of ERROR_PATTERNS matches it, and the          *)
(* traceback frame (file, line, module directory) it carries.              *)
(***************************************************************************)
Line(is_start, has_error_word, is_blank, is_indented, has_traceback, matched, at) ==
    [start |-> is_start, error_word |-> has_error_word, blank |-> is_blank,
     indent |-> is_indented, traceback |-> has_traceback, pattern |-> matched,
     frame |-> at]

NoFrame == [file |-> "", line |-> 0, module |-> ""]

SaleFrame == [file |-> "/addons/sale_custom/models/sale.py", line |-> 42,
              module |-> "sale_custom"]

\* "2024-11-23 10:30:00,123 12345 INFO odoo Starting service"
L_INFO == Line(FALSE, FALSE, FALSE, FALSE, FALSE, "", NoFrame)
\* "2024-11-23 10:30:05,345 12345 ERROR odoo.modules Traceback (most recent call last):"
L_START_TRACEBACK == Line(TRUE, TRUE, FALSE, FALSE, TRUE, "", NoFrame)
\* "2024-11-23 10:30:05,345 12345 ERROR odoo.http Exception during request"
L_START == Line(TRUE, TRUE, FALSE, FALSE, FALSE, "", NoFrame)
\* "2024-11-23 10:30:05,345 12345 WARNING odoo.models unknown parameter"
L_WARNING == Line(TRUE, FALSE, FALSE, FALSE, FALSE, "", NoFrame)
\* "2024-11-23 10:30:05,345 12345 ERROR odoo ImportError: No module named 'foo'"
L_START_IMPORT == Line(TRUE, TRUE, FALSE, FALSE, FALSE, "ImportError", NoFrame)
\* "Traceback (most recent call last):"
L_TRACEBACK == Line(FALSE, FALSE, FALSE, FALSE, TRUE, "", NoFrame)
\* '  File "/addons/sale_custom/models/sale.py", line 42, in <module>'
L_FRAME == Line(FALSE, FALSE, FALSE, TRUE, FALSE, "", SaleFrame)
\* "    from foo import something"
L_CODE == Line(FALSE, FALSE, FALSE, TRUE, FALSE, "", NoFrame)
\* "ImportError: No module named 'foo'"
L_IMPORT_ERROR == Line(FALSE, FALSE, FALSE, FALSE, FALSE, "ImportError", NoFrame)
\* "psycopg2.OperationalError: connection refused"
L_DB_ERROR == Line(FALSE, FALSE, FALSE, FALSE, FALSE, "psycopg2.OperationalError", NoFrame)
\* ""
L_BLANK == Line(FALSE, FALSE, TRUE, FALSE, FALSE, "", NoFrame)

LogAlphabet ==
    {L_INFO, L_START_TRACEBACK, L_START, L_WARNING, L_START_IMPORT,
     L_TRACEBACK, L_FRAME, L_CODE, L_IMPORT_ERROR, L_DB_ERROR, L_BLANK}

\* the entries of ERROR_PATTERNS the alphabet can match, in dictionary order
PatternOrder == <<"ImportError", "psycopg2.OperationalError">>

ERROR_PATTERNS ==
    [p \in {"ImportError", "psycopg2.OperationalError"} |->
        IF p = "ImportError"
        THEN [severity |-> "high", auto_fixable |-> TRUE]
        ELSE [severity |-> "critical", auto_fixable |-> FALSE]]

\* what _create_error is called with, and what it extracts from raw_log
Detection(error_type, severity, auto_fixable, block) ==
    LET frames == SelectSeq(block, LAMBDA l : l.frame # NoFrame)
    IN  [error_type |-> error_type, severity |-> severity,
         auto_fixable |-> auto_fixable,
         \* MODULE_PATH_PATTERN.search: the first match
         module_name |-> IF frames = <<>> THEN "" ELSE frames[1].frame.module,
         \* TRACEBACK_FILE_PATTERN.findall(...)[-1]: the last match
         file_path |-> IF frames = <<>> THEN "" ELSE frames[Len(frames)].frame.file,
         line_number |-> IF frames = <<>> THEN 0 ELSE frames[Len(frames)].frame.line]

\* mutant: the entry of the first line of the block that matches any entry
process_error_block_text_order(block) ==
    LET hits == {k \in DOMAIN block : block[k].pattern # ""}
        first == CHOOSE k \in hits : \A j \in hits : k <= j
    IN  IF block = <<>> THEN <<>>
        ELSE IF hits # {}
        THEN << Detection(block[first].pattern,
                          ERROR_PATTERNS[block[first].pattern].severity,
                          ERROR_PATTERNS[block[first].pattern].auto_fixable, block) >>
        ELSE IF block[1].error_word
        THEN << Detection("UnknownError", "high", TRUE, block) >>
        ELSE <<>>

\* _process_error_block: the detections (none or one) a block gives
process_error_block(block) ==
    LET matching == {i \in DOMAIN PatternOrder :
                        \E k \in DOMAIN block : block[k].pattern = PatternOrder[i]}
        first == CHOOSE i \in matching : \A j \in matching : i <= j
    IN  IF block = <<>> THEN <<>>
        ELSE IF matching # {}
        THEN << Detection(PatternOrder[first],
                          ERROR_PATTERNS[PatternOrder[first]].severity,
                          ERROR_PATTERNS[PatternOrder[first]].auto_fixable, block) >>
        ELSE IF block[1].error_word
        THEN << Detection("UnknownError", "high", TRUE, block) >>
        ELSE <<>>

\* a line that continues the open error block
Continues(l) == l.indent \/ l.traceback

\* _process_log_content: the for loop over the lines, then the remaining block
RECURSIVE ProcessLines(_, _, _)
ProcessLines(lines, block, in_block) ==
    IF lines = <<>>
    THEN IF in_block /\ block # <<>> THEN process_error_block(block) ELSE <<>>
    ELSE LET l == Head(lines)
         IN  IF l.blank
             THEN ProcessLines(Tail(lines), block, in_block)
             ELSE IF l.start
             THEN (IF in_block /\ block # <<>>
                   THEN process_error_block(block) ELSE <<>>)
                  \o ProcessLines(Tail(lines), <<l>>, TRUE)
             ELSE IF in_block
             THEN IF Continues(l)
                  THEN ProcessLines(Tail(lines), Append(block, l), TRUE)
                  ELSE process_error_block(block)
                       \o ProcessLines(Tail(lines), <<>>, FALSE)
             ELSE ProcessLines(Tail(lines), block, in_block)

process_log_content(lines) == ProcessLines(lines, <<>>, FALSE)

\* all logs of up to MaxLogLines lines
RECURSIVE LogsOfLength(_)
LogsOfLength(n) ==
    IF n = 0 THEN {<<>>}
    ELSE {Append(l, x) : l \in LogsOfLength(n - 1), x \in LogAlphabet}

Logs == UNION {LogsOfLength(n) : n \in 0..MaxLogLines}

\* the detector is fed one log; the detections are kept in det.scan
InitParse ==
    /\ NoFixer
    /\ bus = NoBus
    /\ \E log \in Logs : det = [NoDetector EXCEPT !.file = log]
    /\ odoo = NoRestart

parse_log ==
    /\ det.scan.pc = "none"
    /\ det' = [det EXCEPT !.scan = [pc |-> "parsed",
                                    detections |-> process_log_content(det.file)]]
    /\ UNCHANGED <<fixer_vars, bus, odoo>>

NextParse == parse_log

SpecParse == InitParse /\ [][NextParse]_vars

(***************************************************************************)
(* _process_error_block on one block: a line that matches                  *)
(* ERROR_START_PATTERN followed by lines that continue it.                 *)
(***************************************************************************)
MaxBlockLines == 3

\* "2024-11-23 10:30:05,345 12345 CRITICAL odoo psycopg2.OperationalError: refused"
L_START_DB == Line(TRUE, TRUE, FALSE, FALSE, FALSE, "psycopg2.OperationalError", NoFrame)
\* "  ImportError: No module named 'foo'"
L_INDENTED_IMPORT == Line(FALSE, FALSE, FALSE, TRUE, FALSE, "ImportError", NoFrame)
\* "  psycopg2.OperationalError: connection refused"
L_INDENTED_DB == Line(FALSE, FALSE, FALSE, TRUE, FALSE, "psycopg2.OperationalError", NoFrame)

StartLines == {L_START_TRACEBACK, L_START, L_WARNING, L_START_IMPORT, L_START_DB}

ContinuationLines == {L_TRACEBACK, L_FRAME, L_CODE, L_INDENTED_IMPORT, L_INDENTED_DB}

RECURSIVE BlocksOfLength(_)
BlocksOfLength(n) ==
    IF n = 1 THEN {<<l>> : l \in StartLines}
    ELSE {Append(b, x) : b \in BlocksOfLength(n - 1), x \in ContinuationLines}

Blocks == UNION {BlocksOfLength(n) : n \in 1..MaxBlockLines}

InitClassify ==
    /\ NoFixer
    /\ bus = NoBus
    /\ \E block \in Blocks : det = [NoDetector EXCEPT !.file = block]
    /\ odoo = NoRestart

classify_block ==
    /\ det.scan.pc = "none"
    /\ det' = [det EXCEPT !.scan = [pc |-> "classified",
                                    detections |-> process_error_block(det.file)]]
    /\ UNCHANGED <<fixer_vars, bus, odoo>>

NextClassify == classify_block

SpecClassify == InitClassify /\ [][NextClassify]_vars

(***************************************************************************)
(* Error detector, the monitoring loop and scan_log_file.  The log file is *)
(* a sequence of lines; positions count lines.  det.tasks holds every task *)
(* start() created, self._task being the last one.  A line read by a loop  *)
(* task is recorded in det.ingested as <<generation of the file,           *)
(* position>>, and in det.reingested when it had been read before.         *)
(* det.stopped tells that the latest start()/stop() call to return was a   *)
(* stop().                                                                 *)
(* _create_error of the loop is two steps, the duplicate query with the    *)
(* commit and then the emit; stop() may cancel the task in between.        *)
(***************************************************************************)
SCAN_LIMIT == 100

\* the lines the monitored service writes
WrittenLines == {L_START_IMPORT, L_INFO}

\* _get_file_size / stat().st_size
file_size == IF det.exists THEN Len(det.file) ELSE 0

\* the row _create_error stores; detected_at is kept as "younger than the
\* cutoff of one minute"; by: the coroutine that created it
DetectedError(d, by) ==
    [status |-> DETECTED, auto_fixable |-> d.auto_fixable,
     resolved_at |-> FALSE, ignored_at |-> FALSE, ignored_by |-> "",
     error_type |-> d.error_type, module_name |-> d.module_name,
     recent |-> TRUE, by |-> by]

is_duplicate_error(d) ==
    \E e \in ErrorIds :
        /\ errors[e].error_type = d.error_type
        /\ errors[e].recent
        /\ errors[e].status \in {DETECTED, QUEUED, FIXING}
        /\ d.module_name # "" => errors[e].module_name = d.module_name

\* _create_error: the row added to the store unless it is a duplicate
CreateError(d, by) ==
    IF is_duplicate_error(d)
    THEN UNCHANGED <<errors, fix_attempts>>
    ELSE /\ errors' = Append(errors, DetectedError(d, by))
         /\ fix_attempts' = Append(fix_attempts, <<>>)

\* _create_error: the Errors announced with ERROR_DETECTED after it
Announced(d) ==
    IF is_duplicate_error(d)
    THEN det.announced
    ELSE det.announced \cup {Len(errors) + 1}

store_vars == <<errors, fix_attempts>>

loop_vars == <<retry_config, running, pc, cur, cur_attempt, current_fix,
               last_event, escalated, ret, calls, dq, bus, odoo>>

\* the monitored service writes a line (creating the file if it is missing)
write_log(l) ==
    /\ det.written < MaxWritten
    /\ det' = [det EXCEPT !.exists = TRUE, !.file = Append(@, l),
                          !.written = @ + 1]
    /\ UNCHANGED <<store_vars, loop_vars>>

\* the log is rotated: moved away, or truncated in place
rotate_log(keep) ==
    /\ det.generation <= MaxRotations
    /\ det.file # <<>>
    /\ det' = [det EXCEPT !.exists = keep, !.file = <<>>,
                          !.generation = @ + 1]
    /\ UNCHANGED <<store_vars, loop_vars>>

NewTask == [pc |-> "check", pending |-> <<>>, created |-> 0]

\* the task inside "await asyncio.sleep(self.poll_interval)"
Sleeping == [pc |-> "sleep", pending |-> <<>>, created |-> 0]

detector_start ==
    /\ det.calls < MaxDetectorCalls
    /\ IF det.running
       THEN det' = [det EXCEPT !.calls = @ + 1, !.stopped = FALSE]
       ELSE det' = [det EXCEPT !.calls = @ + 1,
                               !.stopped = FALSE,
                               !.running = TRUE,
                               !.last_position = file_size,
                               !.tasks = Append(@, NewTask),
                               !.status_events = @ + 1]
    /\ UNCHANGED <<store_vars, loop_vars>>

\* stop: the flag, cancel() and await of self._task, the "stopped" event
detector_stop ==
    /\ det.calls < MaxDetectorCalls
    /\ det' = [det EXCEPT !.calls = @ + 1,
                          !.stopped = TRUE,
                          !.running = FALSE,
                          !.tasks = IF @ = <<>> THEN @
                                    ELSE [@ EXCEPT ![Len(@)] =
                                             [pc |-> "done", pending |-> <<>>, created |-> 0]],
                          !.status_events = @ + 1]
    /\ UNCHANGED <<store_vars, loop_vars>>

\* mutant: a smaller file does not reset the offset
ReadFrom_no_reset(size, position) == position

\* _check_log_file: "if current_size < self._last_position: ... = 0"
ReadFrom(size, position) == IF size < position THEN 0 ELSE position

\* one pass of "while self._running": _check_log_file up to the read
poll(t) ==
    /\ det.tasks[t].pc = "check"
    /\ LET from == ReadFrom(Len(det.file), det.last_position)
           upto == IF from > Len(det.file) THEN from ELSE Len(det.file)
           new == process_log_content(SubSeq(det.file, from + 1, Len(det.file)))
           read == {<<det.generation, i>> : i \in (from + 1)..upto}
       IN  IF ~det.running
           THEN det' = [det EXCEPT !.tasks[t].pc = "done"]
           ELSE IF ~det.exists
           THEN det' = [det EXCEPT !.tasks[t] = Sleeping]
           ELSE det' = [det EXCEPT
                           !.last_position = upto,
                           !.ingested = @ \cup read,
                           !.reingested = @ \cup (read \cap det.ingested),
                           !.tasks[t] = IF new = <<>> THEN Sleeping
                                        ELSE [pc |-> "processing", pending |-> new,
                                              created |-> 0]]
    /\ UNCHANGED <<store_vars, loop_vars>>

\* the task after the block at the head of its pending blocks
AfterBlock(task) ==
    IF Tail(task.pending) = <<>> THEN Sleeping
    ELSE [pc |-> "processing", pending |-> Tail(task.pending), created |-> 0]

\* _process_log_content of the loop: the next block, _create_error up to
\* the moment "await session.commit()" has taken effect in the store; a
\* duplicate returns None and the loop goes on
create_next(t) ==
    /\ det.tasks[t].pc = "processing"
    /\ CreateError(Head(det.tasks[t].pending), "loop")
    /\ det' = [det EXCEPT
                  !.tasks[t] = IF is_duplicate_error(Head(@.pending))
                               THEN AfterBlock(@)
                               ELSE [@ EXCEPT !.pc = "committed",
                                              !.created = Len(errors) + 1]]
    /\ UNCHANGED loop_vars

\* _create_error resumed after the commit: event_bus.emit(ERROR_DETECTED)
emit_detected(t) ==
    /\ det.tasks[t].pc = "committed"
    /\ det' = [det EXCEPT !.announced = @ \cup {det.tasks[t].created},
                          !.tasks[t] = AfterBlock(@)]
    /\ UNCHANGED <<store_vars, loop_vars>>

\* an Exception inside the pass (the store fails, the file cannot be read):
\* caught by "except Exception" of _monitoring_loop, which sleeps and goes on
poll_fails(t) ==
    /\ det.tasks[t].pc = "processing"
    /\ det' = [det EXCEPT !.tasks[t] = Sleeping]
    /\ UNCHANGED <<store_vars, loop_vars>>

\* "await asyncio.sleep(self.poll_interval)" returns
poll_sleep_done(t) ==
    /\ det.tasks[t].pc = "sleep"
    /\ det' = [det EXCEPT !.tasks[t] = NewTask]
    /\ UNCHANGED <<store_vars, loop_vars>>

\* the query at the end of scan_log_file (since = None):
\* order_by(detected_at.desc()).limit(limit)
ScanResult(n) == [i \in 1..Min(n, SCAN_LIMIT) |-> n + 1 - i]

\* scan_log_file after the file was read: the flag is saved and cleared
scan_begin ==
    /\ det.calls < MaxDetectorCalls
    /\ det.scan.pc \in {"none", "returned"}
    /\ LET found == process_log_content(det.file)
           before == 1..Len(errors)
       IN  IF ~det.exists
           THEN det' = [det EXCEPT !.calls = @ + 1,
                           !.scan = [pc |-> "returned", before |-> before,
                                     result |-> <<>>]]
           ELSE IF found = <<>>
           THEN det' = [det EXCEPT !.calls = @ + 1,
                           !.scan = [pc |-> "returned", before |-> before,
                                     result |-> ScanResult(Len(errors))]]
           ELSE det' = [det EXCEPT !.calls = @ + 1,
                           !.running = FALSE,
                           !.scan = [pc |-> "processing", before |-> before,
                                     original_running |-> det.running,
                                     pending |-> found]]
    /\ UNCHANGED <<store_vars, loop_vars>>

\* the next block of the scan; after the last one the finally clause
\* restores the flag and the query gives the returned list
scan_create ==
    /\ det.scan.pc = "processing"
    /\ CreateError(Head(det.scan.pending), "scan")
    /\ IF Tail(det.scan.pending) # <<>>
       THEN det' = [det EXCEPT !.announced = Announced(Head(det.scan.pending)),
                               !.scan.pending = Tail(@)]
       ELSE det' = [det EXCEPT
                       !.announced = Announced(Head(det.scan.pending)),
                       !.running = det.scan.original_running,
                       !.scan = [pc |-> "returned",
                                 before |-> det.scan.before,
                                 result |-> ScanResult(Len(errors'))]]
    /\ UNCHANGED loop_vars

\* a minute passes: no stored Error is younger than the cutoff any more
minute_passes ==
    /\ \E e \in ErrorIds : errors[e].recent
    /\ errors' = [e \in ErrorIds |-> [errors[e] EXCEPT !.recent = FALSE]]
    /\ UNCHANGED <<fix_attempts, loop_vars, det, odoo>>

InitDetector ==
    /\ NoFixer
    /\ bus = NoBus
    /\ det = NoDetector
    /\ odoo = NoRestart

TaskIds == DOMAIN det.tasks

NextDetector ==
    \/ write_log(L_START_IMPORT)
    \/ \E keep \in BOOLEAN : rotate_log(keep)
    \/ detector_start
    \/ detector_stop
    \/ \E t \in TaskIds : poll(t)
    \/ \E t \in TaskIds : create_next(t)
    \/ \E t \in TaskIds : emit_detected(t)
    \/ \E t \in TaskIds : poll_fails(t)
    \/ \E t \in TaskIds : poll_sleep_done(t)
    \/ scan_begin
    \/ scan_create

SpecDetector == InitDetector /\ [][NextDetector]_vars

\* the loop alone, with the clock and the manual operations on the store
NextDedup ==
    \/ \E l \in WrittenLines : write_log(l)
    \/ detector_start
    \/ \E t \in TaskIds : poll(t)
    \/ \E t \in TaskIds : create_next(t)
    \/ \E t \in TaskIds : emit_detected(t)
    \/ \E t \in TaskIds : poll_sleep_done(t)
    \/ minute_passes
    \/ \E e \in ErrorIds : ignore_error(e, "admin")
    \/ \E e \in ErrorIds : retry_error(e)

SpecDedup == InitDetector /\ [][NextDedup]_vars

\* both loops on one store, with the exceptions their iterations may raise
\* and the timers of their sleeps
NextLoops ==
    \/ start
    \/ stop
    \/ get_next_error
    \/ wake
    \/ loop_error
    \/ backoff_done
    \/ process_error
    \/ enter_try
    \/ \E o \in InvokeOutcomes : invoke_done(o)
    \/ \E v \in FewVerifyInputs : verify_done(v)
    \/ write_log(L_START_IMPORT)
    \/ detector_start
    \/ detector_stop
    \/ \E t \in TaskIds : poll(t)
    \/ \E t \in TaskIds : create_next(t)
    \/ \E t \in TaskIds : emit_detected(t)
    \/ \E t \in TaskIds : poll_fails(t)
    \/ \E t \in TaskIds : poll_sleep_done(t)

\* where the t-th task start() created stands
TaskPc(t) == IF t \in TaskIds THEN det.tasks[t].pc ELSE "absent"

\* asyncio.sleep returns once its delay has passed
TimersFire ==
    /\ WF_vars(backoff_done)
    /\ \A t \in 1..MaxDetectorCalls :
           WF_vars(TaskPc(t) = "sleep" /\ poll_sleep_done(t))

SpecLoops == InitDetector /\ [][NextLoops]_vars /\ TimersFire

(***************************************************************************)
(* Restarts of the monitored service.  _verify_fix makes an UpdaterService *)
(* of its own and calls its _stop_odoo and _start_odoo; the UpdaterService *)
(* of the API stops and starts the service in update_modules and in        *)
(* _rollback.  A systemctl call is one step, taken when it completes.      *)
(* odoo.verify names the attempt whose verification last called systemctl  *)
(* and how far it has come; odoo.updater is the position of the update.    *)
(***************************************************************************)
MaxUpdates == 2

restart_vars == <<fixer_vars, bus, det>>

\* _verify_fix, step 2: await updater._stop_odoo()
verify_stop_odoo ==
    /\ pc = "verifying"
    /\ odoo.verify.attempt # <<cur, cur_attempt>>
    /\ odoo' = [odoo EXCEPT !.verify = [attempt |-> <<cur, cur_attempt>>,
                                        at |-> "stopped"],
                            !.service = "down"]
    /\ UNCHANGED restart_vars

\* _verify_fix, step 2: await updater._start_odoo()
verify_start_odoo ==
    /\ pc = "verifying"
    /\ odoo.verify = [attempt |-> <<cur, cur_attempt>>, at |-> "stopped"]
    /\ odoo' = [odoo EXCEPT !.verify.at = "started", !.service = "up"]
    /\ UNCHANGED restart_vars

\* mutant: a syntax error does not end _verify_fix before the restart
ReturnPoint_after_restart(v) ==
    v.restart_ok =>
        odoo.verify = [attempt |-> <<cur, cur_attempt>>, at |-> "started"]

\* where _verify_fix returns or raises: before the restart on a syntax error
\* ("if not result.syntax_check_passed: ... return result"), after it
\* otherwise, at any point when systemctl fails
ReturnPoint(v) ==
    IF ~v.syntax_ok
    THEN odoo.verify.attempt # <<cur, cur_attempt>>
    ELSE v.restart_ok =>
            odoo.verify = [attempt |-> <<cur, cur_attempt>>, at |-> "started"]

\* _verify_fix returns or raises, and _process_error closes the attempt
verify_returns(v) ==
    /\ ReturnPoint(v)
    /\ verify_done(v)

\* update_modules up to "self._updating = True"
update_modules ==
    /\ odoo.updates < MaxUpdates
    /\ IF odoo.updating
       THEN odoo' = [odoo EXCEPT !.updates = @ + 1, !.rejected = TRUE]
       ELSE odoo' = [odoo EXCEPT !.updates = @ + 1, !.updating = TRUE,
                                !.updater = "begun"]
    /\ UNCHANGED restart_vars

\* update_modules, step 2: await self._stop_odoo()
updater_stop_odoo ==
    /\ odoo.updater = "begun"
    /\ odoo' = [odoo EXCEPT !.updater = "stopped", !.service = "down"]
    /\ UNCHANGED restart_vars

\* update_modules, step 4: await self._start_odoo()
updater_start_odoo ==
    /\ odoo.updater = "stopped"
    /\ odoo' = [odoo EXCEPT !.updater = "started", !.service = "up"]
    /\ UNCHANGED restart_vars

\* _rollback (every module failed and there is a backup): _stop_odoo
rollback_stop_odoo ==
    /\ odoo.updater = "started"
    /\ odoo' = [odoo EXCEPT !.updater = "rb_stopped", !.service = "down"]
    /\ UNCHANGED restart_vars

\* _rollback: _start_odoo
rollback_start_odoo ==
    /\ odoo.updater = "rb_stopped"
    /\ odoo' = [odoo EXCEPT !.updater = "rb_started", !.service = "up"]
    /\ UNCHANGED restart_vars

\* update_modules: the events, and finally "self._updating = False"
update_returns ==
    /\ odoo.updater \in {"started", "rb_started"}
    /\ odoo' = [odoo EXCEPT !.updater = "idle", !.updating = FALSE]
    /\ UNCHANGED restart_vars

NextRestart ==
    \/ detect
    \/ start
    \/ get_next_error
    \/ wake
    \/ process_error
    \/ enter_try
    \/ \E o \in InvokeOutcomes : invoke_done(o)
    \/ verify_stop_odoo
    \/ verify_start_odoo
    \/ \E v \in FewVerifyInputs : verify_returns(v)
    \/ update_modules
    \/ updater_stop_odoo
    \/ updater_start_odoo
    \/ rollback_stop_odoo
    \/ rollback_start_odoo
    \/ update_returns

SpecRestart == InitDetector /\ [][NextRestart]_vars

(***************************************************************************)
(* The service with its collaborators.                                     *)
(***************************************************************************)
Init ==
    /\ errors = <<>>
    /\ fix_attempts = <<>>
    /\ retry_config = SmallRetryConfig
    /\ running = FALSE
    /\ pc = "none"
    /\ cur = NONE
    /\ cur_attempt = NONE
    /\ current_fix = NONE
    /\ last_event = NoEvent
    /\ escalated = 0
    /\ ret = FALSE
    /\ calls = 0
    /\ dq = NoQuery
    /\ bus = NoBus
    /\ det = NoDetector
    /\ odoo = NoRestart

\* ids an API caller may pass: those of the stored Errors and an unknown one
RequestIds == 1..(Len(errors) + 1)

Next ==
    \/ detect
    \/ start
    \/ stop
    \/ get_next_error
    \/ wake
    \/ process_error
    \/ enter_try
    \/ \E o \in InvokeOutcomes : invoke_done(o)
    \/ \E v \in FewVerifyInputs : verify_done(v)
    \/ \E e \in RequestIds : retry_error(e)
    \/ \E e \in RequestIds : ignore_error(e, "admin")
    \/ tick

Spec == Init /\ [][Next]_vars

TypeOK ==
    /\ \A e \in ErrorIds : errors[e].status \in ErrorStatus
    /\ \A e \in ErrorIds : \A i \in DOMAIN fix_attempts[e] :
           fix_attempts[e][i].status \in FixAttemptStatus
    /\ pc \in {"none", "loop", "picked", "sleep", "started", "invoking", "verifying"}

(***************************************************************************)
(* The service over a store that already holds two auto-fixable Errors     *)
(* (the store outlives the service); no further Error is detected.         *)
(***************************************************************************)
InitPair ==
    /\ errors = <<NewError(TRUE), NewError(TRUE)>>
    /\ fix_attempts = << <<>>, <<>> >>
    /\ retry_config = SmallRetryConfig
    /\ running = FALSE
    /\ pc = "none"
    /\ cur = NONE
    /\ cur_attempt = NONE
    /\ current_fix = NONE
    /\ last_event = NoEvent
    /\ escalated = 0
    /\ ret = FALSE
    /\ calls = 0
    /\ dq = NoQuery
    /\ bus = NoBus
    /\ det = NoDetector
    /\ odoo = NoRestart

NextPair ==
    \/ start
    \/ stop
    \/ get_next_error
    \/ wake
    \/ process_error
    \/ enter_try
    \/ \E o \in InvokeOutcomes : invoke_done(o)
    \/ \E v \in FewVerifyInputs : verify_done(v)
    \/ \E e \in RequestIds : retry_error(e)
    \/ \E e \in RequestIds : ignore_error(e, "admin")
    \/ tick

SpecPair == InitPair /\ [][NextPair]_vars

(***************************************************************************)
(* The service over a store that holds an Error that is not auto-fixable   *)
(* and a younger one that is.                                              *)
(***************************************************************************)
InitMixed ==
    /\ errors = <<NewError(FALSE), NewError(TRUE)>>
    /\ fix_attempts = << <<>>, <<>> >>
    /\ retry_config = SmallRetryConfig
    /\ running = FALSE
    /\ pc = "none"
    /\ cur = NONE
    /\ cur_attempt = NONE
    /\ current_fix = NONE
    /\ last_event = NoEvent
    /\ escalated = 0
    /\ ret = FALSE
    /\ calls = 0
    /\ dq = NoQuery
    /\ bus = NoBus
    /\ det = NoDetector
    /\ odoo = NoRestart

NextMixed ==
    \/ start
    \/ stop
    \/ get_next_error
    \/ wake
    \/ process_error
    \/ enter_try
    \/ \E o \in InvokeOutcomes : invoke_done(o)
    \/ \E v \in FewVerifyInputs : verify_done(v)
    \/ \E e \in RequestIds : retry_error(e)
    \/ \E e \in RequestIds : ignore_error(e, "admin")
    \/ tick

SpecMixed == InitMixed /\ [][NextMixed]_vars

(***************************************************************************)
(* C1.  Single-flight: in every reachable state at most one Error has      *)
(* status FIXING.                                                          *)
(***************************************************************************)
Fixing == {e \in ErrorIds : errors[e].status = FIXING}

C1_SingleFlight == Cardinality(Fixing) <= 1

(***************************************************************************)
(* C2.  Every change of an Error's status is one of the listed             *)
(* transitions: DETECTED->QUEUED, QUEUED->FIXING, FIXING->RESOLVED,        *)
(* FIXING->QUEUED, FIXING->FAILED; FAILED->QUEUED and IGNORED->QUEUED by   *)
(* manual retry only; DETECTED/QUEUED/FIXING->IGNORED by manual ignore     *)
(* only.                                                                   *)
(***************************************************************************)
AutomaticTransitions ==
    {<<DETECTED, QUEUED>>, <<QUEUED, FIXING>>, <<FIXING, RESOLVED>>,
     <<FIXING, QUEUED>>, <<FIXING, FAILED>>}

RetryTransitions == {<<FAILED, QUEUED>>, <<IGNORED, QUEUED>>}

IgnoreTransitions == {<<DETECTED, IGNORED>>, <<QUEUED, IGNORED>>, <<FIXING, IGNORED>>}

ListedChange(e) ==
    \/ errors'[e].status = errors[e].status
    \/ <<errors[e].status, errors'[e].status>> \in AutomaticTransitions
    \/ /\ <<errors[e].status, errors'[e].status>> \in RetryTransitions
       /\ retry_error(e)
    \/ /\ <<errors[e].status, errors'[e].status>> \in IgnoreTransitions
       /\ ignore_error(e, "admin")

C2_ListedTransitionsOnly == [][\A e \in ErrorIds : ListedChange(e)]_vars

(***************************************************************************)
(* C3.  For every Error the attempt_number values of its FixAttempts, in   *)
(* the order of the relationship, are exactly 1..k: the i-th attempt       *)
(* carries number i, so there is no gap and no duplicate, and a new        *)
(* attempt gets the count of the prior attempts plus one.                  *)
(***************************************************************************)
C3_AttemptNumbersGapFree ==
    \A e \in ErrorIds :
        \A i \in 1..attempt_count(e) : error_fix_attempts(e)[i].attempt_number = i

\* an Error whose attempt was orphaned by stop() and that was attempted again
C3_Witness ==
    \E e \in ErrorIds :
        /\ attempt_count(e) = 2
        /\ fix_attempts[e][1].status = IN_PROGRESS
        /\ fix_attempts[e][2].attempt_number = 2

(***************************************************************************)
(* C4.  In every reachable state each Error has at most one FixAttempt     *)
(* with status IN_PROGRESS.                                                *)
(***************************************************************************)
InProgress(e) == {i \in DOMAIN fix_attempts[e] : fix_attempts[e][i].status = IN_PROGRESS}

C4_OneInProgressPerError == \A e \in ErrorIds : Cardinality(InProgress(e)) <= 1

(***************************************************************************)
(* C5.  Back-off enforcement: a QUEUED Error that already has k >= 1       *)
(* FixAttempts is moved to FIXING (and attempt k+1 created) only if the    *)
(* latest attempt completed at least get_delay(k) seconds ago.             *)
(***************************************************************************)
BackoffElapsed(e) ==
    /\ last_attempt(e).completed
    /\ last_attempt(e).ago >= get_delay(retry_config, attempt_count(e))

C5_BackoffEnforced ==
    [][\A e \in ErrorIds :
          (/\ errors[e].status = QUEUED
           /\ attempt_count(e) >= 1
           /\ \/ errors'[e].status = FIXING
              \/ Len(fix_attempts'[e]) > Len(fix_attempts[e]))
          => BackoffElapsed(e)]_vars

(***************************************************************************)
(* get_delay on its own: a configuration within the declared bounds of     *)
(* RetryConfig and an attempt number are drawn, then the delay computed.   *)
(***************************************************************************)
DelayBases == {10, 11, 60, 100, 300}
DelayMultipliers == {<<1, 1>>, <<3, 2>>, <<2, 1>>, <<5, 2>>, <<5, 1>>}
DelayCaps == {60, 150, 960, 3600}

DelayQueries ==
    {[cfg |-> RetryConfig(5, b, m[1], m[2], c), attempt |-> n, result |-> NONE] :
        b \in DelayBases, m \in DelayMultipliers, c \in DelayCaps,
        n \in 1..MaxAttemptArg}

InitDelay ==
    /\ errors = <<>>
    /\ fix_attempts = <<>>
    /\ retry_config = DefaultRetryConfig
    /\ running = FALSE
    /\ pc = "none"
    /\ cur = NONE
    /\ cur_attempt = NONE
    /\ current_fix = NONE
    /\ last_event = NoEvent
    /\ escalated = 0
    /\ ret = FALSE
    /\ calls = 0
    /\ dq \in DelayQueries
    /\ bus = NoBus
    /\ det = NoDetector
    /\ odoo = NoRestart

compute_delay ==
    /\ dq.result = NONE
    /\ dq' = [dq EXCEPT !.result = get_delay(dq.cfg, dq.attempt)]
    /\ UNCHANGED <<errors, fix_attempts, retry_config, running, pc, cur,
                   cur_attempt, current_fix, last_event, escalated, ret, calls, bus, det, odoo>>

NextDelay == compute_delay

SpecDelay == InitDelay /\ [][NextDelay]_vars

(***************************************************************************)
(* C6.  get_delay(n) = min(base_delay_seconds x multiplier^(n-1),          *)
(* max_delay_seconds) for every n >= 1 and every configuration within the  *)
(* declared bounds; it never exceeds max_delay_seconds; the default        *)
(* configuration gives 60, 120, 240, 480, 960 and base=100, max=150 gives  *)
(* 150 for n=2.                                                            *)
(***************************************************************************)
Computed == dq.result # NONE

\* numerator and denominator of base x multiplier^(n-1)
ProductNum == dq.cfg.base_delay_seconds * Pow(dq.cfg.multiplier_num, dq.attempt - 1)
ProductDen == Pow(dq.cfg.multiplier_den, dq.attempt - 1)

BackoffTable == <<60, 120, 240, 480, 960>>

TableHolds ==
    /\ (dq.cfg = DefaultRetryConfig /\ dq.attempt <= 5)
           => dq.result = BackoffTable[dq.attempt]
    /\ (dq.cfg = RetryConfig(5, 100, 2, 1, 150) /\ dq.attempt = 2)
           => dq.result = 150

OneError(cfg) ==
    /\ errors = <<NewError(TRUE)>>
    /\ fix_attempts = << <<>> >>
    /\ retry_config = cfg
    /\ running = FALSE
    /\ pc = "none"
    /\ cur = NONE
    /\ cur_attempt = NONE
    /\ current_fix = NONE
    /\ last_event = NoEvent
    /\ escalated = 0
    /\ ret = FALSE
    /\ calls = 0
    /\ dq = NoQuery
    /\ bus = NoBus
    /\ det = NoDetector
    /\ odoo = NoRestart

InitB == OneError(DefaultRetryConfig)

FailingVerifyInputs ==
    {v \in FewVerifyInputs : v.restart_ok /\ ~verify_fix(v).fix_successful}

TaskStep ==
    \/ get_next_error
    \/ wake
    \/ process_error
    \/ enter_try

NextB ==
    \/ start
    \/ TaskStep
    \/ invoke_done("success")
    \/ \E v \in FailingVerifyInputs : verify_done(v)
    \/ tick

SpecB ==
    /\ InitB
    /\ [][NextB]_vars
    /\ WF_vars(start)
    /\ WF_vars(TaskStep)
    /\ WF_vars(invoke_done("success"))
    /\ WF_vars(\E v \in FailingVerifyInputs : verify_done(v))
    /\ WF_vars(tick)

(***************************************************************************)
(* C7.  Scenario B: the Error ends in status FAILED after exactly 5        *)
(* FixAttempts, and FIX_ESCALATED is published for it exactly once.        *)
(***************************************************************************)
EscalatedOnce ==
    /\ errors[1].status = FAILED
    /\ attempt_count(1) = 5
    /\ escalated = 1

C7_ScenarioB ==
    /\ [](escalated <= 1 /\ attempt_count(1) <= 5)
    /\ [](errors[1].status = FAILED => EscalatedOnce)
    /\ <>[]EscalatedOnce

\* the fifth attempt has failed verification and the Error was escalated
C7_Witness ==
    /\ EscalatedOnce
    /\ \A i \in 1..5 : fix_attempts[1][i].status = ATTEMPT_FAILED
    /\ pc = "sleep"

(***************************************************************************)
(* C8.  An Error is moved FIXING->QUEUED after a failed attempt only while *)
(* its attempt count is below max_attempts; when the attempt that reaches  *)
(* max_attempts fails, the Error goes FIXING->FAILED and an escalation     *)
(* event is emitted.                                                       *)
(***************************************************************************)
\* the per-attempt procedure of the task ends in this step
ProcedureEnds == pc \in {"invoking", "verifying"} /\ pc' = "loop"

AttemptFailed ==
    /\ ProcedureEnds
    /\ fix_attempts'[cur][cur_attempt].status \in {ATTEMPT_FAILED, ATTEMPT_TIMEOUT}

Escalation == escalated' = escalated + 1 /\ last_event'.type = "fix_escalated"

InitC == OneError(SmallRetryConfig)

NextC ==
    \/ start
    \/ TaskStep
    \/ \E o \in InvokeOutcomes : invoke_done(o)
    \/ \E v \in AllVerifyInputs : verify_done(v)
    \/ tick

SpecC == InitC /\ [][NextC]_vars

(***************************************************************************)
(* C9.  Scenario C: the agent exited 0, every modified file passes the     *)
(* syntax check, the service was restarted, and the lines logged after the *)
(* restart contain neither the original error signature nor an ERROR or    *)
(* CRITICAL line; then the attempt is closed SUCCESS, the Error is         *)
(* RESOLVED with resolved_at set, and FIX_COMPLETED is emitted.            *)
(***************************************************************************)
PostRestartClean(v) ==
    /\ v.syntax_ok
    /\ v.restart_ok
    /\ \A i \in DOMAIN v.log.lines :
          v.log.lines[i].post =>
              /\ ~v.log.lines[i].type
              /\ ~v.log.lines[i].msg
              /\ ~v.log.lines[i].err

Resolved ==
    /\ fix_attempts'[cur][cur_attempt].status = ATTEMPT_SUCCESS
    /\ errors'[cur].status = RESOLVED
    /\ errors'[cur].resolved_at
    /\ last_event'.type = "fix_completed"

C9_ScenarioC ==
    [][\A v \in AllVerifyInputs :
          (verify_done(v) /\ PostRestartClean(v)) => Resolved]_vars

(***************************************************************************)
(* C10.  Whenever the per-attempt procedure ends (success, agent failure,  *)
(* timeout, verification failure, unexpected exception) the FixAttempt it  *)
(* created has completed_at set and a status other than IN_PROGRESS, its   *)
(* Error is no longer FIXING, and the current_fix marker is None.          *)
(***************************************************************************)
C10_AttemptAlwaysClosed ==
    [][ProcedureEnds =>
          /\ fix_attempts'[cur][cur_attempt].completed
          /\ fix_attempts'[cur][cur_attempt].status # IN_PROGRESS
          /\ errors'[cur].status # FIXING
          /\ current_fix' = NONE]_vars

\* an attempt that timed out was closed, although the Error had been ignored
\* while the agent ran
C10_Witness ==
    \E e \in ErrorIds :
        /\ attempt_count(e) >= 1
        /\ last_attempt(e).status = ATTEMPT_TIMEOUT
        /\ last_attempt(e).completed
        /\ errors[e].ignored_at
        /\ errors[e].status = QUEUED
        /\ current_fix = NONE
        /\ pc = "loop"

(***************************************************************************)
(* C11.  When the agent invocation exceeds claude.timeout_seconds the      *)
(* attempt is closed TIMEOUT (not FAILED), the Error is requeued and       *)
(* FIX_FAILED is emitted with reason "timeout"; when the invocation fails  *)
(* for another reason the attempt is closed FAILED, with an                *)
(* invocation-failure reason.                                              *)
(***************************************************************************)
ClosedAs(astatus, reason) ==
    /\ fix_attempts'[cur][cur_attempt].status = astatus
    /\ errors'[cur].status = QUEUED
    /\ last_event' = Event("fix_failed", reason)

C11_TimeoutClosesTimeout ==
    [][/\ (\E o \in TimeoutOutcomes : invoke_done(o))
              => ClosedAs(ATTEMPT_TIMEOUT, "timeout")
       /\ invoke_done("failure")
              => ClosedAs(ATTEMPT_FAILED, "claude_invocation_failed")]_vars

(***************************************************************************)
(* C12.  Every FIX_STARTED of an Error is followed, before the next         *)
(* FIX_STARTED, by one of FIX_COMPLETED, FIX_FAILED, FIX_ESCALATED: no      *)
(* attempt is closed FAILED or TIMEOUT without a failure event emitted by   *)
(* the step that closes it.                                                 *)
(***************************************************************************)
FailureEventEmitted ==
    /\ last_event' # last_event
    /\ last_event'.type \in {"fix_failed", "fix_escalated"}

C12_FailureEventEmitted == [][AttemptFailed => FailureEventEmitted]_vars


(***************************************************************************)
(* C13.  retry_error(id) returns true and sets the status QUEUED only when *)
(* the Error exists and is FAILED or IGNORED; for an unknown id or any     *)
(* other status it returns false and leaves the Error and its FixAttempts  *)
(* unchanged; a successful retry never deletes attempt history.            *)
(***************************************************************************)
Retryable(e) == e \in ErrorIds /\ errors[e].status \in {FAILED, IGNORED}

C13_RetryContract ==
    [][\A e \in RequestIds :
          retry_error(e) =>
              /\ ret' = Retryable(e)
              /\ Retryable(e) => errors' = [errors EXCEPT ![e].status = QUEUED]
              /\ ~Retryable(e) => errors' = errors
              /\ fix_attempts' = fix_attempts]_vars

\* the service is stopped, the Error has a closed attempt, was ignored after
\* the stop and is QUEUED again: a retry succeeded and the history is kept
C13_Witness ==
    \E e \in ErrorIds :
        /\ pc = "none"
        /\ attempt_count(e) = 1
        /\ last_attempt(e).status = ATTEMPT_FAILED
        /\ last_event.type = "error_ignored"
        /\ errors[e].status = QUEUED
        /\ ret

(***************************************************************************)
(* C14.  ignore_error(id, actor) returns true, sets IGNORED and records    *)
(* ignored_by / ignored_at only when the status is DETECTED, QUEUED or     *)
(* FIXING; for an Error already RESOLVED, FAILED or IGNORED, or an unknown *)
(* id, it returns false, changes nothing and emits no ERROR_IGNORED.       *)
(***************************************************************************)
Ignorable(e) == e \in ErrorIds /\ errors[e].status \in {DETECTED, QUEUED, FIXING}

C14_IgnoreOnlyNonTerminal ==
    [][\A e \in RequestIds :
          ignore_error(e, "admin") =>
              /\ ret' = Ignorable(e)
              /\ Ignorable(e) => /\ errors'[e].status = IGNORED
                                 /\ errors'[e].ignored_by = "admin"
                                 /\ errors'[e].ignored_at
              /\ ~Ignorable(e) => errors' = errors /\ last_event' = last_event]_vars

(***************************************************************************)
(* C15.  Once an Error is RESOLVED, FAILED or IGNORED its status changes   *)
(* again only through a successful retry_error, whatever the interleaving  *)
(* of ignore_error with the loop.                                          *)
(***************************************************************************)
Terminal == {RESOLVED, FAILED, IGNORED}

C15_TerminalOnlyRetried ==
    [][\A e \in ErrorIds :
          (errors[e].status \in Terminal /\ errors'[e].status # errors[e].status)
          => retry_error(e) /\ ret']_vars

(***************************************************************************)
(* C16.  Selection policy: a loop iteration takes the oldest QUEUED        *)
(* auto-fixable Error whose back-off has elapsed if there is one;          *)
(* otherwise it promotes the oldest DETECTED auto-fixable Error to QUEUED  *)
(* and takes it.                                                           *)
(***************************************************************************)
QueuedReady == {e \in Eligible(QUEUED) : ~NotReady(e)}

C16_SelectionPolicy ==
    [][get_next_error =>
          IF QueuedReady # {}
          THEN cur' = Oldest(QueuedReady)
          ELSE Eligible(DETECTED) # {}
               => /\ cur' = Oldest(Eligible(DETECTED))
                  /\ errors'[Oldest(Eligible(DETECTED))].status = QUEUED]_vars

(***************************************************************************)
(* C17.  The loop never changes the status of, and never creates a         *)
(* FixAttempt for, an Error whose auto_fixable flag is false; no operation *)
(* changes the auto_fixable flag of an Error.                              *)
(***************************************************************************)
ManualStep == \E r \in RequestIds : retry_error(r) \/ ignore_error(r, "admin")

C17_NonFixableUntouched ==
    [][\A e \in ErrorIds :
          /\ errors'[e].auto_fixable = errors[e].auto_fixable
          /\ ~errors[e].auto_fixable
                => /\ Len(fix_attempts'[e]) = Len(fix_attempts[e])
                   /\ errors'[e].status # errors[e].status => ManualStep
                   /\ cur' # e]_vars

\* the loop has resolved the younger, auto-fixable Error and left the older
\* one, which is not auto-fixable, as it was detected
C17_Witness ==
    /\ Len(errors) = 2
    /\ ~errors[1].auto_fixable
    /\ errors[1].status = DETECTED
    /\ attempt_count(1) = 0
    /\ errors[2].status = RESOLVED
    /\ calls = 0

(***************************************************************************)
(* C18.  After n publishes on an EventBus of history size H the history    *)
(* holds exactly the most recent min(n, H) events in publish order; after  *)
(* 150 publishes with H = 100, get_history(limit=100) returns the events   *)
(* 51..150 in order.                                                       *)
(***************************************************************************)
MostRecent(n, k) == [i \in 1..k |-> n - k + i]

C18_HistoryKeepsMostRecent ==
    /\ bus.history = MostRecent(bus.published, Min(bus.published, bus.history_size))
    /\ (bus.history_size = 100 /\ bus.published = 150)
           => get_history(NoType, 100) = MostRecent(150, 100)

C18_Witness ==
    /\ bus.history_size = 100
    /\ bus.published = 150
    /\ Len(bus.history) = 100
    /\ bus.history[1] = 51

(***************************************************************************)
(* C19.  If a handler raises while an event is published, publish() still  *)
(* returns, every other handler registered for the event is called exactly *)
(* once, and the event is recorded in the history.                         *)
(***************************************************************************)
Published == DOMAIN bus.calls

SomeHandlerRaised(e) == bus.calls[e].raised # {}

C19_HandlerFailureIsolated ==
    \A e \in Published :
        SomeHandlerRaised(e) =>
            /\ \A i \in DOMAIN bus.calls[e].handlers : bus.calls[e].invoked[i] <= 1
            /\ bus.calls[e].pc = "returned"
                  => \A i \in DOMAIN bus.calls[e].handlers :
                         bus.calls[e].invoked[i] = 1
            /\ e > bus.published - bus.history_size
                  => \E k \in DOMAIN bus.history : bus.history[k] = e

\* a publish has returned whose first handler raised and whose second
\* handler was called
C19_Witness ==
    \E e \in Published :
        /\ bus.calls[e].pc = "returned"
        /\ 1 \in bus.calls[e].raised
        /\ Len(bus.calls[e].handlers) = 2
        /\ bus.calls[e].invoked[2] = 1

(***************************************************************************)
(* C20.  For every subscriber and any two events A, B with A published     *)
(* before B, also when published concurrently by the detector and the      *)
(* fixer with handlers that suspend, the subscriber's handler for A has    *)
(* completed before its handler for B starts.                              *)
(***************************************************************************)
HandlerStarted(e, i) == bus.calls[e].invoked[i] > 0

HandlerCompleted(e, i) == i < bus.calls[e].idx

C20_PerSubscriberOrder ==
    \A a \in Published, b \in Published :
        a < b =>
            \A i \in DOMAIN bus.calls[a].handlers, j \in DOMAIN bus.calls[b].handlers :
                (bus.calls[a].handlers[i] = bus.calls[b].handlers[j]
                    /\ HandlerStarted(b, j))
                => HandlerCompleted(a, i)

(***************************************************************************)
(* C23.  Scenario A: a log error block made of the start line, a traceback *)
(* with the frame File "/addons/sale_custom/models/sale.py", line 42, and  *)
(* the exception line ImportError: No module named 'foo' gives an Error of *)
(* type ImportError, severity HIGH, auto_fixable, module sale_custom, file *)
(* sale.py, line 42, and not the generic fallback error.                   *)
(***************************************************************************)
ScenarioALogs ==
    {<<L_START_TRACEBACK, L_FRAME, L_CODE, L_IMPORT_ERROR>>,
     <<L_START, L_TRACEBACK, L_FRAME, L_IMPORT_ERROR>>}

C23_ScenarioA ==
    (det.scan.pc = "parsed" /\ det.file \in ScenarioALogs)
    => /\ Len(det.scan.detections) = 1
       /\ det.scan.detections[1].error_type = "ImportError"
       /\ det.scan.detections[1].severity = "high"
       /\ det.scan.detections[1].auto_fixable
       /\ det.scan.detections[1].module_name = "sale_custom"
       /\ det.scan.detections[1].file_path = "/addons/sale_custom/models/sale.py"
       /\ det.scan.detections[1].line_number = 42

(***************************************************************************)
(* C21.  Rotation: when a poll finds the log file smaller than the tracked *)
(* offset, the offset is reset to 0 and this poll reads the file from 0 to *)
(* its end; every line of the new file is read once and no line is read a  *)
(* second time.                                                            *)
(***************************************************************************)
WholeFile == {<<det.generation, i>> : i \in 1..Len(det.file)}

RotationSeen == det.running /\ det.exists /\ Len(det.file) < det.last_position

C21_RotationResetsOffset ==
    /\ [][\A t \in TaskIds :
             (poll(t) /\ RotationSeen)
             => /\ det'.last_position = Len(det.file)
                /\ WholeFile \subseteq det'.ingested]_vars
    /\ [](det.reingested = {})

\* started once on a file of two lines or more; the file was rotated, a line
\* written to the new file, and a poll has read it from position 0
C21_Witness ==
    /\ det.calls = 1
    /\ <<1, 2>> \in det.ingested
    /\ det.generation = 2
    /\ Len(det.file) = 1
    /\ <<2, 1>> \in det.ingested
    /\ det.last_position = 1

(***************************************************************************)
(* C22.  Deduplication: two blocks of the same type, message and module    *)
(* detected within 60 seconds of each other give one Error record,         *)
(* whatever was done to the first record in between.                       *)
(***************************************************************************)
SameBlock(e1, e2) ==
    /\ errors[e1].error_type = errors[e2].error_type
    /\ errors[e1].module_name = errors[e2].module_name

C22_OneRecordPerMinute ==
    \A e1, e2 \in ErrorIds :
        (SameBlock(e1, e2) /\ errors[e1].recent /\ errors[e2].recent)
        => e1 = e2

(***************************************************************************)
(* C24.  scan_log_file emits nothing on the bus: for no Error created by a *)
(* scan is ERROR_DETECTED published.                                       *)
(***************************************************************************)
C24_ScanEmitsNothing ==
    \A e \in det.announced : errors[e].by # "scan"

(***************************************************************************)
(* C25.  scan_log_file returns exactly the Errors this scan created; an    *)
(* Error that was in the store before the scan started is never returned.  *)
(***************************************************************************)
Returned == {det.scan.result[i] : i \in DOMAIN det.scan.result}

C25_ScanReturnsItsOwn ==
    det.scan.pc = "returned"
    => /\ Returned \cap det.scan.before = {}
       /\ Returned = {e \in ErrorIds \ det.scan.before : errors[e].by = "scan"}

(***************************************************************************)
(* C26.  start() is idempotent while the loop runs: it creates no second   *)
(* task, emits no second "running" event and leaves the offset and         *)
(* everything else as it was.                                              *)
(***************************************************************************)
LoopAlive == \E t \in TaskIds : det.tasks[t].pc # "done"

C26_StartIdempotent ==
    [][(detector_start /\ LoopAlive)
          => /\ det'.tasks = det.tasks
             /\ det'.status_events = det.status_events
             /\ det'.last_position = det.last_position
             /\ det'.running = det.running
             /\ UNCHANGED <<fixer_vars, bus, odoo>>]_vars

(***************************************************************************)
(* C27.  Once stop() has returned, the background task has terminated,     *)
(* is_running is false and no loop iteration runs until start() is called. *)
(***************************************************************************)
C27_StoppedStaysStopped ==
    det.stopped
       => /\ ~det.running
          /\ \A t \in TaskIds : det.tasks[t].pc = "done"

(***************************************************************************)
(* C28.  stop() of the fixer while an attempt is in flight: when stop()    *)
(* returns the attempt is closed (status not IN_PROGRESS, completed_at     *)
(* set) and its Error is not left in FIXING.                               *)
(***************************************************************************)
InFlight == pc \in {"invoking", "verifying"}

C28_StopWindsDown ==
    [][(stop /\ InFlight)
          => /\ fix_attempts'[cur][cur_attempt].status # IN_PROGRESS
             /\ fix_attempts'[cur][cur_attempt].completed
             /\ errors'[cur].status # FIXING]_vars

(***************************************************************************)
(* C29.  An exception raised inside one iteration of the detector's loop   *)
(* or of the fixer's loop does not end the loop: the task goes to its      *)
(* sleep with the running flag as it was, and while the flag stays set it  *)
(* comes back to a further iteration.                                      *)
(***************************************************************************)
C29_ExceptionKeepsLoop ==
    /\ [][/\ loop_error => (pc' = "backoff" /\ running' = running)
          /\ \A t \in TaskIds :
                 poll_fails(t) => /\ det'.tasks[t].pc = "sleep"
                                  /\ det'.running = det.running]_vars
    /\ (pc = "backoff" /\ running) ~> (pc = "loop" \/ ~running)
    /\ \A t \in 1..MaxDetectorCalls :
           (TaskPc(t) = "sleep" /\ det.running)
           ~> (TaskPc(t) = "check" \/ ~det.running)

\* the store is empty although the loop has read an error block (its
\* _create_error raised), the detector task sleeps with the flag set, and
\* the fixer sleeps in its except branch with its flag set
C29_Witness ==
    /\ errors = <<>>
    /\ <<1, 1>> \in det.ingested
    /\ det.running
    /\ det.tasks[1].pc = "sleep"
    /\ running
    /\ pc = "backoff"

(***************************************************************************)
(* C30.  At most one stop/start sequence of the monitored service is       *)
(* outstanding at any time: while the verification step is between its     *)
(* stop and its start, the updater is not between a stop and a start of    *)
(* its own, and no update or rollback stops or starts the service.         *)
(***************************************************************************)
VerifyRestart ==
    /\ pc = "verifying"
    /\ odoo.verify = [attempt |-> <<cur, cur_attempt>>, at |-> "stopped"]

UpdaterRestart == odoo.updater \in {"stopped", "rb_stopped"}

C30_OneRestartAtATime ==
    /\ [](~(VerifyRestart /\ UpdaterRestart))
    /\ [][VerifyRestart => ~(\/ updater_stop_odoo
                             \/ updater_start_odoo
                             \/ rollback_stop_odoo
                             \/ rollback_start_odoo)]_vars

(***************************************************************************)
(* C31.  A syntax error in a modified file ends the verification at once:  *)
(* the verification has neither stopped nor started the service, its       *)
(* result does not depend on the log, and the attempt is closed FAILED     *)
(* with the syntax failure among the new errors recorded for it.           *)
(***************************************************************************)
SyntaxFailure ==
    [fix_successful |-> FALSE, syntax_check_passed |-> FALSE,
     original_error_resolved |-> FALSE, new_errors_introduced |-> 1]

C31_SyntaxShortCircuits ==
    [][\A v \in FewVerifyInputs :
          (verify_returns(v) /\ ~v.syntax_ok)
          => /\ odoo.verify.attempt # <<cur, cur_attempt>>
             /\ odoo' = odoo
             /\ verify_fix(v) = SyntaxFailure
             /\ fix_attempts'[cur][cur_attempt].status = ATTEMPT_FAILED
             /\ fix_attempts'[cur][cur_attempt].completed
             /\ last_event' = Event("fix_failed", "verification_failed")]_vars

\* the first attempt was closed FAILED by a verification that made no restart
C31_Witness ==
    /\ Len(fix_attempts) = 1
    /\ Len(fix_attempts[1]) = 1
    /\ fix_attempts[1][1].status = ATTEMPT_FAILED
    /\ fix_attempts[1][1].completed
    /\ last_event = Event("fix_failed", "verification_failed")
    /\ odoo.verify.at = "none"
    /\ odoo.service = "up"

(***************************************************************************)
(* C32.  Classification is first-match-wins over the ordered table: the    *)
(* type, severity and auto_fixable of the detection are those of the first *)
(* table entry matching anywhere in the block; with no entry matching, the *)
(* block gives the generic fallback (HIGH, auto-fixable) exactly when its  *)
(* first line has ERROR or CRITICAL, and nothing otherwise.                *)
(***************************************************************************)
Matches(p, block) == \E k \in DOMAIN block : block[k].pattern = p

FirstEntry(i, block) ==
    /\ Matches(PatternOrder[i], block)
    /\ \A j \in 1..(i - 1) : ~Matches(PatternOrder[j], block)

C32_FirstMatchWins ==
    det.scan.pc = "classified"
    => LET block == det.file
           found == det.scan.detections
       IN  /\ \A i \in DOMAIN PatternOrder :
                  FirstEntry(i, block)
                  => /\ Len(found) = 1
                     /\ found[1].error_type = PatternOrder[i]
                     /\ found[1].severity = ERROR_PATTERNS[PatternOrder[i]].severity
                     /\ found[1].auto_fixable =
                            ERROR_PATTERNS[PatternOrder[i]].auto_fixable
           /\ (\A i \in DOMAIN PatternOrder : ~Matches(PatternOrder[i], block))
                  => IF block[1].error_word
                     THEN /\ Len(found) = 1
                          /\ found[1].error_type = "UnknownError"
                          /\ found[1].severity = "high"
                          /\ found[1].auto_fixable
                     ELSE found = <<>>

\* a block whose first line matches the second entry of the table and whose
\* second line matches the first entry has been classified
C32_Witness ==
    /\ det.scan.pc = "classified"
    /\ det.file = <<L_START_DB, L_INDENTED_IMPORT>>
    /\ det.scan.detections[1].error_type = "ImportError"

(***************************************************************************)
(* C33.  One ERROR_DETECTED per Error record the polling loop persists:    *)
(* every Error the loop has committed has been announced, or the task that *)
(* committed it is about to announce it.                                   *)
(***************************************************************************)
AboutToAnnounce(e) ==
    \E t \in TaskIds : det.tasks[t].pc = "committed" /\ det.tasks[t].created = e

C33_OneEventPerRecord ==
    /\ \A e \in ErrorIds :
           errors[e].by = "loop" => (e \in det.announced \/ AboutToAnnounce(e))
    /\ det.announced \subseteq ErrorIds

ScanReturns == scan_create /\ det'.scan.pc = "returned"

C35_ScanKeepsLoop ==
    [][(ScanReturns /\ det.scan.original_running /\ ~det.stopped)
          => /\ det'.running
             /\ det'.tasks # <<>>
             /\ det'.tasks[Len(det'.tasks)].pc # "done"]_vars

(***************************************************************************)
(* C36.  The detections do not depend on how the content is split across   *)
(* reads: one read of a sequence of lines gives the same detections as two *)
(* consecutive reads of it split at any line boundary.                     *)
(***************************************************************************)
TwoReads(lines, k) ==
    process_log_content(SubSeq(lines, 1, k))
        \o process_log_content(SubSeq(lines, k + 1, Len(lines)))

C36_SplitIndependent ==
    det.scan.pc = "parsed"
    => \A k \in 0..Len(det.file) : det.scan.detections = TwoReads(det.file, k)

(***************************************************************************)
(* C37.  A failed pass loses no content: when the processing of newly read *)
(* content raises, the offset is not left past the blocks that were not    *)
(* processed, so that a later pass over the file still classifies them.    *)
(***************************************************************************)
Unread(d) == SubSeq(d.file, d.last_position + 1, Len(d.file))

StillToCome(block, d) ==
    \E j \in DOMAIN process_log_content(Unread(d)) :
        process_log_content(Unread(d))[j] = block

C37_FailedPassLosesNothing ==
    [][\A t \in TaskIds :
          (poll_fails(t) /\ det.exists)
          => \A i \in DOMAIN det.tasks[t].pending :
                 StillToCome(det.tasks[t].pending[i], det')]_vars

(***************************************************************************)
(* The fixer kept running over the store of InitMixed: the task takes its  *)
(* steps, every invocation and verification ends, time passes, and an      *)
(* operator may ignore and retry Errors.                                   *)
(***************************************************************************)
NextProgress ==
    \/ start
    \/ TaskStep
    \/ \E o \in InvokeOutcomes : invoke_done(o)
    \/ \E v \in FewVerifyInputs : verify_done(v)
    \/ \E e \in RequestIds : retry_error(e)
    \/ \E e \in RequestIds : ignore_error(e, "admin")
    \/ tick

SpecProgress ==
    /\ InitMixed
    /\ [][NextProgress]_vars
    /\ WF_vars(start)
    /\ WF_vars(TaskStep)
    /\ WF_vars(\E o \in InvokeOutcomes : invoke_done(o))
    /\ WF_vars(\E v \in FewVerifyInputs : verify_done(v))
    /\ WF_vars(tick)

(***************************************************************************)
(* C38.  Progress: while the fixer keeps running, every Error that is      *)
(* QUEUED, or DETECTED and auto-fixable, eventually is RESOLVED, FAILED or *)
(* IGNORED (or the bound on escalations of the model is reached).          *)
(***************************************************************************)
Waiting(e) ==
    \/ errors[e].status = QUEUED
    \/ errors[e].status = DETECTED /\ errors[e].auto_fixable

Settled(e) == errors[e].status \in {RESOLVED, FAILED, IGNORED}

C38_Progress ==
    \A e \in 1..2 : Waiting(e) ~> (Settled(e) \/ escalated = MaxEscalations)

(***************************************************************************)
(* C39.  get_history(event_type, limit) returns at most limit events for   *)
(* every limit >= 0 (an empty list for limit 0), all of the requested type *)
(* when a type is given, in publish order, and they are the most recent    *)
(* such events in the history.                                             *)
(***************************************************************************)
MaxLimit == 3

OfType(event_type) ==
    IF event_type = NoType
    THEN bus.history
    ELSE SelectSeq(bus.history, LAMBDA e : bus.calls[e].type = event_type)

MostRecentOf(s, limit) ==
    LET k == Min(limit, Len(s))
    IN  [i \in 1..k |-> s[Len(s) - k + i]]

C39_HistoryLimit ==
    \A event_type \in EventTypes \cup {NoType}, limit \in 0..MaxLimit :
        LET r == get_history(event_type, limit)
        IN  /\ Len(r) <= limit
            /\ r = MostRecentOf(OfType(event_type), limit)

(***************************************************************************)
(* C40.  Delivery: publish(event) invokes each handler registered with     *)
(* subscribe_all and each handler registered with subscribe for event.type *)
(* exactly once per registration and no handler registered only for other  *)
(* types; after unsubscribe(type, handler) of a handler subscribed once,   *)
(* the handler is no longer among those an event of that type is delivered *)
(* to; unsubscribing a handler that is not subscribed changes nothing.     *)
(***************************************************************************)
RegisteredFor(t) == bus.global_subscribers \o bus.subscribers[t]

Occurrences(s, h) == Cardinality({i \in DOMAIN s : s[i] = h})

OncePerRegistration(c) ==
    /\ \A i \in DOMAIN c.handlers : c.invoked[i] <= 1
    /\ c.pc = "returned" => \A i \in DOMAIN c.handlers : c.invoked[i] = 1

C40_Delivery ==
    [][/\ \A p \in Publishers :
              publish(p) =>
                  /\ bus'.calls[bus'.published].handlers = RegisteredFor(EventTypeOf(p))
                  /\ OncePerRegistration(bus'.calls[bus'.published])
       /\ \A p \in Publishers :
              handler_done(p) =>
                  /\ bus'.calls[bus.publishers[p]].handlers
                         = bus.calls[bus.publishers[p]].handlers
                  /\ OncePerRegistration(bus'.calls[bus.publishers[p]])
       /\ \A t \in EventTypes, h \in DeliveryHandlers :
              unsubscribe(t, h) =>
                  /\ (Occurrences(RegisteredFor(t), h) = 1
                         /\ Occurrences(bus.subscribers[t], h) = 1)
                        => Occurrences(RegisteredFor(t), h)' = 0
                  /\ Occurrences(bus.subscribers[t], h) = 0 => bus' = bus
                  /\ \A g \in DeliveryHandlers \ {h} :
                         Occurrences(RegisteredFor(t), g)'
                             = Occurrences(RegisteredFor(t), g)]_vars

\* an event was delivered to a handler, the handler was unsubscribed, and a
\* later event of the same type was published and not delivered to it
C40_Witness ==
    \E a \in Published, b \in Published :
        /\ a < b
        /\ bus.calls[a].type = bus.calls[b].type
        /\ bus.calls[a].pc = "returned"
        /\ bus.calls[b].pc = "returned"
        /\ \E i \in DOMAIN bus.calls[a].handlers :
               /\ bus.calls[a].invoked[i] = 1
               /\ Occurrences(bus.calls[b].handlers, bus.calls[a].handlers[i]) = 0
        /\ Len(bus.calls[b].handlers) = 1
        /\ bus.calls[b].invoked[1] = 1

====
